---- MODULE Spec2Model ----
(***************************************************************************)
(* A model of lquinn2015/cs3240.                                           *)
(*                                                                         *)
(* Part 1: lib/fat32/src/vfat/cache.rs, the CachedPartition: a block       *)
(* device wrapped by a partition descriptor, with a per-logical-sector     *)
(* cache and dirty flags.                                                  *)
(*                                                                         *)
(* Sector sizes are counted in bytes.  BlockDevice::sector_size() is a     *)
(* property of the device and Partition::sector_size is a public field,    *)
(* so the model draws both from small ranges instead of fixing 512.        *)
(***************************************************************************)
EXTENDS Integers, Sequences, FiniteSets, TLC

VARIABLES
    pc,                 \* "new" before CachedPartition::new, then "ready";
                        \* "panicked" after a failed assert!, "aborted" after
                        \* the process died on a corrupted heap
    device,             \* the BlockDevice: [sector_size]
    disk,               \* the device's contents: physical sector -> bytes
    partition,          \* Partition {start, num_sectors, sector_size}
    cache,              \* HashMap<u64, CacheEntry>: sector -> [data, dirty]
    cache_line_buffer,  \* the storage behind CachedPartition::cache_line_buffer:
                        \* "none" | "owned" | "freed" (the field dangles)
    loads,              \* per logical sector, the loads that succeeded
    last,               \* the call that ran last, with the cache before it
    parse,              \* Part 2, the sector parsers: the sector read, the
                        \* device's answer and the parser's result
    sv,                 \* Part 3, a StackVec: storage, len and the call that
                        \* ran last
    mem,                \* Part 4, kern/src/allocator: the bin Allocator, or
                        \* the call of a function of util.rs
    sh,                 \* Part 5, kern/src/shell.rs: the shell's line buffer
                        \* and what it did with the last byte
    boot                \* Part 6, boot/src/main.rs: where kmain is

\* The variables of Part 1.
cacheVars ==
    <<pc, device, disk, partition, cache, cache_line_buffer, loads, last>>

\* What Part 1 leaves alone, and what Part 2 leaves alone.
notCache == <<parse, sv, mem, sh, boot>>
notParse == <<cacheVars, sv, mem, sh, boot>>

\* What Part 3 leaves alone, and what Part 4 leaves alone.
notStackVec == <<cacheVars, parse, mem, sh, boot>>
notMem == <<cacheVars, parse, sv, sh, boot>>

vars == <<cacheVars, parse, sv, mem, sh, boot>>

(***************************************************************************)
(* Bounds of the model.                                                    *)
(***************************************************************************)
MaxNumSectors == 2      \* partition.num_sectors ranges over 0..MaxNumSectors
MaxBufLen == 1          \* callers' buffers hold 0..MaxBufLen bytes

\* The values of partition.start.
Starts == {0, 1}

\* The values of device.sector_size().
DevSectorSizes == {1, 2}

\* The values of partition.sector_size: below the device's sector size, equal
\* to it, a multiple of it and not a multiple of it.
SectorSizes == {1, 2, 3}

MaxOf(S) == CHOOSE m \in S : \A x \in S : x <= m

\* The logical sectors callers ask for.  MaxNumSectors itself is never in
\* range, so every partition has an out-of-range sector among them.
SectorIds == 0 .. MaxNumSectors

\* The physical sectors the device holds: enough for every partition above.
DiskSectors == 0 .. (MaxOf(Starts) + MaxNumSectors * MaxOf(SectorSizes))

\* The bytes callers write.
Bytes == {0, 1}

Buffers == UNION { [1 .. n -> Bytes] : n \in 0 .. MaxBufLen }

\* Option<u64>::None of virtual_to_physical.
None == -1

\* No translation was made by the call.
NotTranslated == None - 1

\* Part 2 is not running.
NoParse == [stage |-> "off"]

\* No StackVec has been made; no allocator call has been made.
NoStackVec == [stage |-> "off"]
NoMem == [stage |-> "off"]

\* The shell has not been started; the bootloader has not been started.
NoShell == [stage |-> "off"]
NoBoot == [stage |-> "off"]

EmptyCache == [s \in {} |-> [data |-> <<>>, dirty |-> FALSE]]

NoCall ==
    [op |-> "none", sector |-> 0, res |-> "Ok", err |-> "", ret |-> 0,
     buf |-> <<>>, out |-> <<>>, view |-> <<>>, reads |-> <<>>,
     phys |-> NotTranslated, pre |-> EmptyCache]

\* What the device answers to the reads of one call: the 1-based index of the
\* read that fails (0: none does) and how it fails; and, when the call writes
\* through the dangling cache_line_buffer, whether the process survives it.
IoOutcomes ==
    [fail : 0 .. MaxOf(SectorSizes),
     kind : {"DeviceError", "UnexpectedEof"},
     uaf : {"benign", "abort"}]

\* The answers that can differ for a call on `sector`: the device is asked
\* only when the sector is in range and not cached, at most factor times, and
\* the process can die of the dangling buffer only once it dangles.
IoFor(sector) ==
    IF sector \in DOMAIN cache \/ sector >= partition.num_sectors
    THEN {[fail |-> 0, kind |-> "DeviceError", uaf |-> "benign"]}
    ELSE {io \in IoOutcomes :
            /\ io.fail <= partition.sector_size \div device.sector_size
            /\ (io.fail = 0 \/ io.uaf = "abort") => io.kind = "DeviceError"
            /\ cache_line_buffer # "freed" => io.uaf = "benign"}

(***************************************************************************)
(* core::cmp::min                                                          *)
(***************************************************************************)
min(a, b) == IF a <= b THEN a ELSE b

(***************************************************************************)
(* dst[..amt].copy_from_slice(&src[..amt])                                 *)
(***************************************************************************)
copy_from_slice(dst, src, amt) ==
    [i \in 1 .. Len(dst) |-> IF i <= amt THEN src[i] ELSE dst[i]]

(***************************************************************************)
(* CachedPartition::factor                                                 *)
(***************************************************************************)
factor == partition.sector_size \div device.sector_size

\* virtual_to_physical with the range check off by one (`>` for `>=`).
virtual_to_physical_off_by_one(virt) ==
    IF virt > partition.num_sectors
    THEN None
    ELSE partition.start + virt * factor

(***************************************************************************)
(* CachedPartition::virtual_to_physical                                    *)
(***************************************************************************)
virtual_to_physical(virt) ==
    IF virt >= partition.num_sectors
    THEN None
    ELSE LET physical_offset == virt * factor
             physical_sector == partition.start + physical_offset
         IN  physical_sector

(***************************************************************************)
(* BlockDevice::read_all_sector(n, vec): appends physical sector n to vec. *)
(* outcome is the device's answer: "ok", or the way the read fails (a      *)
(* short read is an UnexpectedEof failure).                                *)
(***************************************************************************)
read_all_sector(n, vec, outcome) ==
    IF outcome = "ok" /\ n \in DOMAIN disk
    THEN [res |-> "Ok", err |-> "", vec |-> vec \o disk[n]]
    ELSE [res |-> "Err",
          err |-> IF outcome = "ok" THEN "UnexpectedEof" ELSE outcome,
          vec |-> vec]

\* The loop of load_sector reading the physical sectors from the last to the
\* first.
RECURSIVE load_loop_descending(_, _, _, _, _)
load_loop_descending(i, phy_id, line_buffer, reads, io) ==
    IF i >= factor
    THEN [res |-> "Ok", err |-> "", line_buffer |-> line_buffer, reads |-> reads]
    ELSE LET n == phy_id + (factor - 1 - i)
             r == read_all_sector(n, line_buffer,
                                  IF io.fail = i + 1 THEN io.kind ELSE "ok")
         IN  IF r.res = "Err"
             THEN [res |-> "Err", err |-> r.err, line_buffer |-> r.vec,
                   reads |-> Append(reads, n)]
             ELSE load_loop_descending(i + 1, phy_id, r.vec, Append(reads, n), io)

(***************************************************************************)
(* The loop of load_sector: for i in 0..factor, read physical sector       *)
(* phy_id + i into line_buffer, `?` returning the first failure.           *)
(***************************************************************************)
RECURSIVE load_loop(_, _, _, _, _)
load_loop(i, phy_id, line_buffer, reads, io) ==
    IF i >= factor
    THEN [res |-> "Ok", err |-> "", line_buffer |-> line_buffer, reads |-> reads]
    ELSE LET r == read_all_sector(phy_id + i, line_buffer,
                                  IF io.fail = i + 1 THEN io.kind ELSE "ok")
         IN  IF r.res = "Err"
             THEN [res |-> "Err", err |-> r.err, line_buffer |-> r.vec,
                   reads |-> Append(reads, phy_id + i)]
             ELSE load_loop(i + 1, phy_id, r.vec, Append(reads, phy_id + i), io)

(***************************************************************************)
(* CachedPartition::load_sector(buf, sector).                              *)
(*                                                                         *)
(* buf is cleared and reserved, and never written: the device's bytes go   *)
(* to line_buffer, a Vec<u8> built by Vec::from_raw_parts over the storage *)
(* of cache_line_buffer.  line_buffer is dropped when load_sector returns  *)
(* (by Ok or by `?`), which frees that storage while the field still       *)
(* points to it.  An out-of-range sector returns before line_buffer is     *)
(* built and frees nothing.                                                *)
(*                                                                         *)
(* A later load writes the device's bytes through the dangling pointer and *)
(* frees the storage again: undefined behaviour.  The storage is then free *)
(* or has been handed out again as the data buffer of an entry (the same   *)
(* size class), whose length is 0, so the bytes written are never read:    *)
(* such a load either goes on without visible effect ("benign") or ends    *)
(* the process, the allocator detecting the second free ("abort").  The    *)
(* choice is the input io.uaf.                                             *)
(***************************************************************************)
load_sector(sector, io) ==
    LET buf == <<>>
        phy_id == virtual_to_physical(sector)
    IN  IF phy_id = None
        THEN [res |-> "Err", err |-> "InvalidInput", buf |-> buf,
              reads |-> <<>>, phys |-> None, line |-> cache_line_buffer]
        ELSE LET l == load_loop(0, phy_id, <<>>, <<>>, io)
             IN  IF cache_line_buffer = "freed" /\ io.uaf = "abort"
                 THEN [res |-> "Abort", err |-> l.err, buf |-> buf,
                       reads |-> l.reads, phys |-> phy_id, line |-> "freed"]
                 ELSE [res |-> l.res, err |-> l.err, buf |-> buf,
                       reads |-> l.reads, phys |-> phy_id, line |-> "freed"]

\* get_entry without the lookup: every call loads the sector again.
get_entry_always_loads(sector, io) ==
    LET l == load_sector(sector, io)
    IN  IF l.res # "Ok"
        THEN [res |-> l.res, err |-> l.err, cache |-> cache,
              reads |-> l.reads, phys |-> l.phys, line |-> l.line,
              loaded |-> FALSE]
        ELSE [res |-> "Ok", err |-> "",
              cache |-> [s \in DOMAIN cache \cup {sector} |->
                           IF s = sector
                           THEN [data |-> l.buf, dirty |-> FALSE]
                           ELSE cache[s]],
              reads |-> l.reads, phys |-> l.phys, line |-> l.line,
              loaded |-> TRUE]

\* get_entry that inserts the entry before it loads it, and leaves it there
\* when the load fails.
get_entry_inserts_first(sector, io) ==
    IF sector \notin DOMAIN cache
    THEN LET l == load_sector(sector, io)
         IN  [res |-> l.res, err |-> l.err,
              cache |-> [s \in DOMAIN cache \cup {sector} |->
                           IF s = sector
                           THEN [data |-> l.buf, dirty |-> FALSE]
                           ELSE cache[s]],
              reads |-> l.reads, phys |-> l.phys, line |-> l.line,
              loaded |-> l.res = "Ok"]
    ELSE [res |-> "Ok", err |-> "", cache |-> cache, reads |-> <<>>,
          phys |-> NotTranslated, line |-> cache_line_buffer,
          loaded |-> FALSE]

\* get_entry over a cache of one line: a load evicts every other entry.
get_entry_evicts(sector, io) ==
    IF sector \notin DOMAIN cache
    THEN LET l == load_sector(sector, io)
         IN  IF l.res # "Ok"
             THEN [res |-> l.res, err |-> l.err, cache |-> cache,
                   reads |-> l.reads, phys |-> l.phys, line |-> l.line,
                   loaded |-> FALSE]
             ELSE [res |-> "Ok", err |-> "",
                   cache |-> [s \in {sector} |->
                                [data |-> l.buf, dirty |-> FALSE]],
                   reads |-> l.reads, phys |-> l.phys, line |-> l.line,
                   loaded |-> TRUE]
    ELSE [res |-> "Ok", err |-> "", cache |-> cache, reads |-> <<>>,
          phys |-> NotTranslated, line |-> cache_line_buffer,
          loaded |-> FALSE]

(***************************************************************************)
(* CachedPartition::get_entry(sector)                                      *)
(***************************************************************************)
get_entry(sector, io) ==
    IF sector \notin DOMAIN cache
    THEN LET l == load_sector(sector, io)
         IN  IF l.res # "Ok"
             THEN [res |-> l.res, err |-> l.err, cache |-> cache,
                   reads |-> l.reads, phys |-> l.phys, line |-> l.line,
                   loaded |-> FALSE]
             ELSE [res |-> "Ok", err |-> "",
                   cache |-> [s \in DOMAIN cache \cup {sector} |->
                                IF s = sector
                                THEN [data |-> l.buf, dirty |-> FALSE]
                                ELSE cache[s]],
                   reads |-> l.reads, phys |-> l.phys, line |-> l.line,
                   loaded |-> TRUE]
    ELSE [res |-> "Ok", err |-> "", cache |-> cache, reads |-> <<>>,
          phys |-> NotTranslated, line |-> cache_line_buffer,
          loaded |-> FALSE]

\* get_mut that marks an entry dirty only when this call created it.
get_mut_dirty_on_load(sector, io) ==
    LET e == get_entry(sector, io)
    IN  IF e.res # "Ok"
        THEN e @@ [view |-> <<>>]
        ELSE [e EXCEPT !.cache = [e.cache EXCEPT ![sector].dirty = e.loaded]]
             @@ [view |-> e.cache[sector].data]

(***************************************************************************)
(* CachedPartition::get_mut(sector): the entry, marked dirty, as a slice.  *)
(***************************************************************************)
get_mut(sector, io) ==
    LET e == get_entry(sector, io)
    IN  IF e.res # "Ok"
        THEN e @@ [view |-> <<>>]
        ELSE [e EXCEPT !.cache = [e.cache EXCEPT ![sector].dirty = TRUE]]
             @@ [view |-> e.cache[sector].data]

\* get written as get_mut: it marks the entry dirty.
get_marks_dirty(sector, io) ==
    LET e == get_entry(sector, io)
    IN  IF e.res # "Ok"
        THEN e @@ [view |-> <<>>]
        ELSE [e EXCEPT !.cache = [e.cache EXCEPT ![sector].dirty = TRUE]]
             @@ [view |-> e.cache[sector].data]

(***************************************************************************)
(* CachedPartition::get(sector): the entry as a slice.                     *)
(***************************************************************************)
get(sector, io) ==
    LET e == get_entry(sector, io)
    IN  IF e.res # "Ok"
        THEN e @@ [view |-> <<>>]
        ELSE e @@ [view |-> e.cache[sector].data]

\* read_sector that fills the whole of buf (zeroes past the cached bytes) and
\* returns buf.len().
read_sector_whole_buf(sector, buf, io) ==
    LET g == get(sector, io)
    IN  IF g.res # "Ok"
        THEN g @@ [ret |-> 0, out |-> buf]
        ELSE g @@ [ret |-> Len(buf),
                   out |-> [i \in 1 .. Len(buf) |->
                              IF i <= Len(g.view) THEN g.view[i] ELSE 0]]

(***************************************************************************)
(* <CachedPartition as BlockDevice>::read_sector(sector, buf)              *)
(***************************************************************************)
read_sector(sector, buf, io) ==
    LET g == get(sector, io)
    IN  IF g.res # "Ok"
        THEN g @@ [ret |-> 0, out |-> buf]
        ELSE LET amt == min(Len(g.view), Len(buf))
             IN  g @@ [ret |-> amt, out |-> copy_from_slice(buf, g.view, amt)]

\* write_sector that replaces the cached sector by buf and returns buf.len().
write_sector_replaces(sector, buf, io) ==
    LET g == get_mut(sector, io)
    IN  IF g.res # "Ok"
        THEN g @@ [ret |-> 0, out |-> buf]
        ELSE [g EXCEPT !.cache = [g.cache EXCEPT ![sector].data = buf]]
             @@ [ret |-> Len(buf), out |-> buf]

(***************************************************************************)
(* <CachedPartition as BlockDevice>::write_sector(sector, buf)             *)
(***************************************************************************)
write_sector(sector, buf, io) ==
    LET g == get_mut(sector, io)
    IN  IF g.res # "Ok"
        THEN g @@ [ret |-> 0, out |-> buf]
        ELSE LET amt == min(Len(g.view), Len(buf))
                 data == copy_from_slice(g.view, buf, amt)
             IN  [g EXCEPT !.cache = [g.cache EXCEPT ![sector].data = data]]
                 @@ [ret |-> amt, out |-> buf]

\* write_through: write_sector also writes the logical sector's first
\* physical sector to the device.
device_writes_write_through(op, sector, buf, r) ==
    IF op = "write_sector" /\ r.res = "Ok"
    THEN <<[n |-> virtual_to_physical(sector), buf |-> buf]>>
    ELSE <<>>

(***************************************************************************)
(* The calls of device.write_sector(n, buf) that one call on the           *)
(* CachedPartition makes: none.  The only use of self.device in load_sector *)
(* is read_all_sector.                                                     *)
(***************************************************************************)
device_writes(op, sector, buf, r) == <<>>

\* The device after the writes `ws`, in order.
RECURSIVE after_writes(_, _)
after_writes(d, ws) ==
    IF ws = <<>> THEN d
    ELSE after_writes([d EXCEPT ![Head(ws).n] = Head(ws).buf], Tail(ws))

\* What the device holds when it is handed to CachedPartition::new.
InitialDisk ==
    [p \in DiskSectors |->
       [i \in 1 .. device.sector_size |-> (p * device.sector_size + i) % 256]]

(***************************************************************************)
(* The state after construction of the device and the descriptor.          *)
(***************************************************************************)
Init ==
    /\ pc = "new"
    /\ device \in [sector_size : DevSectorSizes]
    /\ disk = InitialDisk
    /\ partition \in [start : Starts,
                      num_sectors : 0 .. MaxNumSectors,
                      sector_size : SectorSizes]
    /\ cache = EmptyCache
    /\ cache_line_buffer = "none"
    /\ loads = [s \in SectorIds |-> 0]
    /\ last = NoCall
    /\ parse = NoParse
    /\ sv = NoStackVec
    /\ mem = NoMem
    /\ sh = NoShell
    /\ boot = NoBoot

\* new without its assert!: every descriptor is accepted.
New_without_assert ==
    /\ pc = "new"
    /\ pc' = "ready"
    /\ cache_line_buffer' = "owned"
    /\ cache' = EmptyCache
    /\ last' = [NoCall EXCEPT !.op = "new"]
    /\ UNCHANGED <<device, disk, partition, loads, notCache>>

(***************************************************************************)
(* CachedPartition::new(device, partition)                                 *)
(***************************************************************************)
New ==
    /\ pc = "new"
    /\ IF partition.sector_size >= device.sector_size
       THEN /\ pc' = "ready"
            /\ cache_line_buffer' = "owned"
       ELSE /\ pc' = "panicked"
            /\ cache_line_buffer' = "none"
    /\ cache' = EmptyCache
    /\ last' = [NoCall EXCEPT
                  !.op = "new",
                  !.res = IF partition.sector_size >= device.sector_size
                          THEN "Ok" ELSE "Panic"]
    /\ UNCHANGED <<device, disk, partition, loads, notCache>>

\* The effect of a call that went through get_entry.
Finish(op, sector, buf, r) ==
    /\ pc' = IF r.res = "Abort" THEN "aborted" ELSE "ready"
    /\ cache' = r.cache
    /\ cache_line_buffer' = r.line
    /\ loads' = IF r.loaded THEN [loads EXCEPT ![sector] = @ + 1] ELSE loads
    /\ last' = [op |-> op, sector |-> sector, res |-> r.res, err |-> r.err,
                ret |-> r.ret, buf |-> buf, out |-> r.out, view |-> r.view,
                reads |-> r.reads, phys |-> r.phys, pre |-> cache]
    /\ disk' = after_writes(disk, device_writes(op, sector, buf, r))
    /\ UNCHANGED <<device, partition, notCache>>

Get(sector, io) ==
    /\ pc = "ready"
    /\ Finish("get", sector, <<>>, get(sector, io) @@ [ret |-> 0, out |-> <<>>])

GetMut(sector, io) ==
    /\ pc = "ready"
    /\ Finish("get_mut", sector, <<>>,
              get_mut(sector, io) @@ [ret |-> 0, out |-> <<>>])

\* The caller writes through the slice get_mut returned: any bytes, the
\* slice's length.
ViewWrite(bytes) ==
    /\ pc = "ready"
    /\ last.op = "get_mut"
    /\ last.res = "Ok"
    /\ Len(bytes) = Len(cache[last.sector].data)
    /\ cache' = [cache EXCEPT ![last.sector].data = bytes]
    /\ last' = [last EXCEPT !.op = "view_write", !.buf = bytes,
                            !.reads = <<>>, !.phys = NotTranslated,
                            !.pre = cache]
    /\ UNCHANGED <<pc, device, disk, partition, cache_line_buffer, loads,
                   notCache>>

ReadSector(sector, buf, io) ==
    /\ pc = "ready"
    /\ Finish("read_sector", sector, buf, read_sector(sector, buf, io))

WriteSector(sector, buf, io) ==
    /\ pc = "ready"
    /\ Finish("write_sector", sector, buf, write_sector(sector, buf, io))

Next ==
    \/ New
    \/ \E sector \in SectorIds : \E io \in IoFor(sector) : Get(sector, io)
    \/ \E sector \in SectorIds : \E io \in IoFor(sector) : GetMut(sector, io)
    \/ \E bytes \in Buffers : ViewWrite(bytes)
    \/ \E sector \in SectorIds, buf \in Buffers : \E io \in IoFor(sector) :
           ReadSector(sector, buf, io)
    \/ \E sector \in SectorIds, buf \in Buffers : \E io \in IoFor(sector) :
           WriteSector(sector, buf, io)

Spec == Init /\ [][Next]_vars

(***************************************************************************)
(* Properties of the CachedPartition.                                      *)
(*                                                                         *)
(* `last` describes the call that led to the current state and `last.pre`  *)
(* the cache before it, so a property of every call is an invariant.       *)
(***************************************************************************)
CacheOps == {"get", "get_mut", "read_sector", "write_sector"}

\* The call that ran last went through load_sector: its sector had no entry.
Loading == last.op \in CacheOps /\ last.sector \notin DOMAIN last.pre

\* Absent, Clean or Dirty: the state of sector s in cache map c.
EntryState(c, s) ==
    IF s \notin DOMAIN c THEN "Absent"
    ELSE IF c[s].dirty THEN "Dirty" ELSE "Clean"

\* C1: a logical sector n >= partition.num_sectors is refused with
\* InvalidInput (and no device read); any other n is translated to
\* partition.start + n * (logical sector size / physical sector size), which
\* is where the load starts reading.
C1_Translation ==
    Loading =>
        IF last.sector >= partition.num_sectors
        THEN /\ last.res = "Err"
             /\ last.err = "InvalidInput"
             /\ last.phys = None
             /\ last.reads = <<>>
        ELSE /\ last.phys = partition.start
                    + last.sector * (partition.sector_size \div device.sector_size)
             /\ Len(last.reads) >= 1
             /\ last.reads[1] = last.phys

\* Sector 1 of a partition that starts at 1 with two physical sectors per
\* logical sector was translated to physical sector 3.
C1_Witness ==
    /\ Loading
    /\ last.res = "Ok"
    /\ last.sector = 1
    /\ partition.start = 1
    /\ partition.sector_size = 2 * device.sector_size
    /\ last.phys = 3

\* C2: every logical sector is loaded successfully at most once, and a call
\* on a sector that has an entry succeeds without any device read.
C2_LoadedAtMostOnce ==
    /\ \A s \in SectorIds : loads[s] <= 1
    /\ (last.op \in CacheOps /\ last.sector \in DOMAIN last.pre) =>
           (last.res = "Ok" /\ last.reads = <<>>)

\* get(s) on a sector an earlier call loaded: no device read, one load.
C2_Witness ==
    /\ last.op = "get"
    /\ last.sector \in DOMAIN last.pre
    /\ last.reads = <<>>
    /\ loads[last.sector] = 1

\* C3: a call that fails leaves the cache map as it was, with no entry for
\* its sector; and a call on an in-range sector without an entry does go to
\* the device.
C3_FailureLeavesCache ==
    /\ (last.op \in CacheOps /\ last.res = "Err") =>
           (cache = last.pre /\ last.sector \notin DOMAIN cache)
    /\ (Loading /\ last.sector < partition.num_sectors) =>
           Len(last.reads) >= 1

\* A device error on the load of one sector while another sector is cached
\* and dirty.
C3_Witness ==
    /\ last.op \in CacheOps
    /\ last.res = "Err"
    /\ last.err = "DeviceError"
    /\ \E s \in DOMAIN cache : cache[s].dirty

\* C4: over any call, an entry is never removed, a dirty entry stays dirty,
\* a new entry is clean unless get_mut / write_sector on that sector created
\* it, and an entry becomes dirty only by get_mut / write_sector on it.
C4_ForwardOnly ==
    \A s \in SectorIds :
        LET a == EntryState(last.pre, s)
            b == EntryState(cache, s)
        IN  /\ a = "Clean" => b \in {"Clean", "Dirty"}
            /\ a = "Dirty" => b = "Dirty"
            /\ (a # "Dirty" /\ b = "Dirty") =>
                   (last.op \in {"get_mut", "write_sector"} /\ last.sector = s)

\* A clean entry became dirty while another entry stayed in the cache.
C4_Witness ==
    \E s, t \in SectorIds :
        /\ s # t
        /\ EntryState(last.pre, s) = "Clean"
        /\ EntryState(cache, s) = "Dirty"
        /\ EntryState(last.pre, t) # "Absent"

\* C5: after a successful get_mut or write_sector the sector's entry is
\* dirty, whether the call created the entry or found it.
C5_MutMarksDirty ==
    (last.op \in {"get_mut", "write_sector"} /\ last.res = "Ok") =>
        (last.sector \in DOMAIN cache /\ cache[last.sector].dirty)

\* write_sector with an empty buffer on an entry that was cached and clean.
C5_Witness ==
    /\ last.op = "write_sector"
    /\ last.res = "Ok"
    /\ last.buf = <<>>
    /\ EntryState(last.pre, last.sector) = "Clean"
    /\ cache[last.sector].dirty

\* C6: get and read_sector keep the dirty flag of every entry that existed,
\* and an entry they create is clean.
C6_GetKeepsDirty ==
    last.op \in {"get", "read_sector"} =>
        /\ DOMAIN last.pre \subseteq DOMAIN cache
        /\ \A s \in DOMAIN cache :
               cache[s].dirty = IF s \in DOMAIN last.pre
                                THEN last.pre[s].dirty
                                ELSE FALSE

\* read_sector on a dirty entry, which stays dirty, with a clean entry beside
\* it.
C6_Witness ==
    /\ last.op = "read_sector"
    /\ last.res = "Ok"
    /\ EntryState(last.pre, last.sector) = "Dirty"
    /\ EntryState(cache, last.sector) = "Dirty"
    /\ \E t \in DOMAIN cache : ~cache[t].dirty

\* The bytes of the factor physical sectors that make up logical sector s.
RECURSIVE DeviceBytes(_, _)
DeviceBytes(p, n) ==
    IF n = 0 THEN <<>> ELSE disk[p] \o DeviceBytes(p + 1, n - 1)

\* C7: right after the call that loaded logical sector s, the cached bytes
\* of s are partition.sector_size long and are the device's physical sectors
\* start + s*factor .. start + s*factor + factor - 1, in that order.
C7_CachedBytes ==
    (Loading /\ last.res = "Ok" /\ last.op \in {"get", "read_sector"}) =>
        /\ Len(cache[last.sector].data) = partition.sector_size
        /\ cache[last.sector].data =
               DeviceBytes(partition.start + last.sector * factor, factor)

\* C8: a successful read_sector(s) that follows a successful
\* write_sector(s, buf), with buf no longer than a logical sector and the
\* read's buffer no shorter than buf, returns the bytes of buf, finds the
\* entry dirty and reads nothing from the device.
C8_ReadYourWrites ==
    [][(/\ last.op = "write_sector"
        /\ last.res = "Ok"
        /\ Len(last.buf) <= partition.sector_size
        /\ last'.op = "read_sector"
        /\ last'.res = "Ok"
        /\ last'.sector = last.sector
        /\ Len(last'.buf) >= Len(last.buf))
       => (/\ last'.ret >= Len(last.buf)
           /\ SubSeq(last'.out, 1, Len(last.buf)) = last.buf
           /\ cache'[last.sector].dirty
           /\ last'.reads = <<>>)]_vars

\* C9: a successful read_sector returns min(len(cached), len(buf)), has
\* copied that many leading bytes of the cached sector to the front of buf,
\* and has changed neither the rest of buf nor any cached bytes.
C9_ReadCopiesMin ==
    (last.op = "read_sector" /\ last.res = "Ok") =>
        LET cached == cache[last.sector].data
            n == IF Len(cached) <= Len(last.buf)
                 THEN Len(cached) ELSE Len(last.buf)
        IN  /\ last.ret = n
            /\ Len(last.out) = Len(last.buf)
            /\ \A i \in 1 .. Len(last.buf) :
                   last.out[i] = IF i <= n THEN cached[i] ELSE last.buf[i]
            /\ \A s \in DOMAIN last.pre : cache[s].data = last.pre[s].data

\* read_sector into a one-byte buffer succeeded.
C9_Witness ==
    /\ last.op = "read_sector"
    /\ last.res = "Ok"
    /\ Len(last.buf) = 1
    /\ last.ret = Len(cache[last.sector].data)
    /\ last.out = last.buf

\* C10: a successful write_sector returns min(len(cached), len(buf)), has
\* put that many leading bytes of buf at the front of the cached sector, and
\* has changed neither the rest of the cached sector nor its length.
C10_WriteCopiesMin ==
    (last.op = "write_sector" /\ last.res = "Ok") =>
        LET before == IF last.sector \in DOMAIN last.pre
                      THEN last.pre[last.sector].data
                      ELSE last.view
            after == cache[last.sector].data
            n == IF Len(before) <= Len(last.buf)
                 THEN Len(before) ELSE Len(last.buf)
        IN  /\ last.ret = n
            /\ Len(after) = Len(before)
            /\ \A i \in 1 .. Len(after) :
                   after[i] = IF i <= n THEN last.buf[i] ELSE before[i]

\* write_sector of a one-byte buffer succeeded on an entry already cached.
C10_Witness ==
    /\ last.op = "write_sector"
    /\ last.res = "Ok"
    /\ Len(last.buf) = 1
    /\ last.sector \in DOMAIN last.pre
    /\ Len(cache[last.sector].data) = Len(last.pre[last.sector].data)

\* C11: the device holds what it held when it was handed to new, whatever
\* calls were made and however many entries are dirty.
C11_DeviceNeverWritten == disk = InitialDisk

\* Two sectors are cached and dirty.
C11_Witness ==
    /\ {0, 1} \subseteq DOMAIN cache
    /\ cache[0].dirty
    /\ cache[1].dirty
    /\ \E op \in {"write_sector", "view_write"} : last.op = op

\* C12 as claimed: new with a logical sector size below the device's sector
\* size returns an error to its caller and does not panic.
C12_ReportableError ==
    (pc # "new" /\ partition.sector_size < device.sector_size) =>
        (pc # "panicked" /\ last.res = "Err")

\* C12, amended: new with a logical sector size below the device's sector
\* size produces no CachedPartition, by panicking (its assert! fails).
C12_PanicsOnSmallSector ==
    (pc # "new" /\ partition.sector_size < device.sector_size) =>
        /\ pc = "panicked"
        /\ last.op = "new"
        /\ last.res = "Panic"
        /\ cache = EmptyCache
        /\ cache_line_buffer = "none"

\* new was called with 1-byte logical sectors over 2-byte device sectors.
C12_Witness ==
    /\ pc = "panicked"
    /\ partition.sector_size = 1
    /\ device.sector_size = 2

\* C13: every constructed CachedPartition has a logical sector size that is
\* factor times the device's sector size, with factor >= 1.
C13_MultipleAtConstruction ==
    pc \in {"ready", "aborted"} =>
        /\ factor >= 1
        /\ partition.sector_size = factor * device.sector_size

\* C14: when a device read fails during a load, the call returns that error
\* to its caller, the reads issued are consecutive from the translated
\* sector and end with the failed one, and the cache is as before the call.
C14_DeviceErrorPropagates ==
    (Loading /\ last.err \in {"DeviceError", "UnexpectedEof"}) =>
        /\ last.res = "Err"
        /\ Len(last.reads) \in 1 .. factor
        /\ \A j \in 1 .. Len(last.reads) : last.reads[j] = last.phys + j - 1
        /\ cache = last.pre
        /\ last.sector \notin DOMAIN cache

(***************************************************************************)
(* Part 2.  The on-disk structures: MasterBootRecord (mbr.rs) and          *)
(* BiosParameterBlock (vfat/ebpb.rs).  A sector is a function from byte     *)
(* offsets to bytes 0..255; a u16 is a number; a u32 is the pair of its     *)
(* 16-bit halves [lo, hi], which keeps every value exact.                   *)
(***************************************************************************)
SECTOR_LEN == 512       \* let mut buf = [0u8; 512]
BOOTABLE == 128         \* 0x80
MAGIC == <<85, 170>>    \* [0x55, 0xaa]

\* The variables of Part 1 while a parser runs: no CachedPartition exists.
CacheOff ==
    /\ pc = "off"
    /\ device = [sector_size |-> SECTOR_LEN]
    /\ disk = <<>>
    /\ partition = [start |-> 0, num_sectors |-> 0, sector_size |-> SECTOR_LEN]
    /\ cache = EmptyCache
    /\ cache_line_buffer = "none"
    /\ loads = [s \in SectorIds |-> 0]
    /\ last = NoCall

\* The fields of a #[repr(C, packed)] struct, in declaration order, with
\* their sizes in bytes.
ChsLayout ==
    <<[name |-> "head", size |-> 1],
      [name |-> "sector_and_cylinder_start", size |-> 2]>>

RECURSIVE size_of(_)
size_of(layout) ==
    IF layout = <<>> THEN 0
    ELSE Head(layout).size + size_of(Tail(layout))

\* Offset of a field of a packed struct: the sizes of the fields before it.
RECURSIVE offset_of(_, _)
offset_of(layout, name) ==
    IF Head(layout).name = name THEN 0
    ELSE Head(layout).size + offset_of(Tail(layout), name)

PartitionEntryLayout ==
    <<[name |-> "boot_indicator", size |-> 1],
      [name |-> "start_chs", size |-> size_of(ChsLayout)],
      [name |-> "partition_type", size |-> 1],
      [name |-> "end_chs", size |-> size_of(ChsLayout)],
      [name |-> "sector_offset", size |-> 4],
      [name |-> "num_sectors", size |-> 4]>>

MasterBootRecordLayout ==
    <<[name |-> "bootstrap", size |-> 436],
      [name |-> "disk_id", size |-> 10],
      [name |-> "partions", size |-> 4 * size_of(PartitionEntryLayout)],
      [name |-> "magic", size |-> 2]>>

\* Size of a field of a packed struct.
field_size(layout, name) ==
    (CHOOSE f \in {layout[i] : i \in DOMAIN layout} : f.name = name).size

\* The len bytes of buf from offset off, as a sequence.
bytes_at(buf, off, len) == [i \in 1 .. len |-> buf[off + i - 1]]

\* big_endian: the most significant byte first.
u16_at_big_endian(buf, off) == buf[off] * 256 + buf[off + 1]

\* A u16 read from memory on the (little-endian) target.
u16_at(buf, off) == buf[off] + buf[off + 1] * 256

\* big_endian: the most significant half first, each half big-endian.
u32_at_big_endian(buf, off) ==
    [lo |-> buf[off + 2] * 256 + buf[off + 3],
     hi |-> buf[off] * 256 + buf[off + 1]]

\* A u32 read from memory: its low and high halves.
u32_at(buf, off) == [lo |-> u16_at(buf, off), hi |-> u16_at(buf, off + 2)]

\* The PartitionEntry that lies at offset base of buf.
PartitionEntry_at(buf, base) ==
    LET at(name) == base + offset_of(PartitionEntryLayout, name) IN
    [boot_indicator |-> buf[at("boot_indicator")],
     start_chs      |-> bytes_at(buf, at("start_chs"), size_of(ChsLayout)),
     partition_type |-> buf[at("partition_type")],
     end_chs        |-> bytes_at(buf, at("end_chs"), size_of(ChsLayout)),
     sector_offset  |-> u32_at(buf, at("sector_offset")),
     num_sectors    |-> u32_at(buf, at("num_sectors"))]

\* &*(buf.as_ptr() as *const MasterBootRecord): the struct that lies over
\* the 512 bytes of buf.  partions is indexed from 0, as in the source.
MasterBootRecord_cast(buf) ==
    LET at(name) == offset_of(MasterBootRecordLayout, name) IN
    [bootstrap |-> bytes_at(buf, at("bootstrap"),
                            field_size(MasterBootRecordLayout, "bootstrap")),
     disk_id   |-> bytes_at(buf, at("disk_id"),
                            field_size(MasterBootRecordLayout, "disk_id")),
     partions  |-> [i \in 0 .. 3 |->
                      PartitionEntry_at(buf, at("partions")
                                             + i * size_of(PartitionEntryLayout))],
     magic     |-> bytes_at(buf, at("magic"),
                            field_size(MasterBootRecordLayout, "magic"))]

\* What one dev.read_sector(n, &mut buf) can return: Ok(n) with all of the
\* sector or less, or an io::Error of some kind.
ReadOutcomes ==
    {[tag |-> "Ok", n |-> n, kind |-> ""] :
        n \in {SECTOR_LEN, SECTOR_LEN - 1, 0}}
    \cup {[tag |-> "Err", n |-> 0, kind |-> k] :
            k \in {"DeviceError", "UnexpectedEof"}}

\* buf = [0; 512] after dev.read_sector(_, &mut buf) on a sector that holds
\* image: the first io.n bytes are the sector's.
dev_read_sector(image, io) ==
    [o \in 0 .. SECTOR_LEN - 1 |-> IF o < io.n THEN image[o] ELSE 0]

NoMbr == <<>>

\* The Result<_, Error> of a parser.  err is the Error variant, kind the
\* io::ErrorKind inside Io, index the u8 inside UnknownBootIndicator.
Ok(v) == [res |-> "Ok", err |-> "", kind |-> "", index |-> None, val |-> v]
Err(e, kind, index) ==
    [res |-> "Err", err |-> e, kind |-> kind, index |-> index, val |-> NoMbr]

\* last_bad: the loop reports the highest entry with an unknown indicator.
RECURSIVE check_indicators_last_bad(_, _)
check_indicators_last_bad(mbr, i) ==
    IF i = 4 THEN None
    ELSE LET indicator == mbr.partions[i].boot_indicator
             rest == check_indicators_last_bad(mbr, i + 1) IN
         IF rest # None THEN rest
         ELSE IF indicator # 0 /\ indicator # BOOTABLE THEN i
         ELSE None

\* for i in 0..4usize { ... return Err(UnknownBootIndicator(i as u8)) }: the
\* index the loop returns with, from entry i on, or None if it finishes.
RECURSIVE check_indicators(_, _)
check_indicators(mbr, i) ==
    IF i = 4 THEN None
    ELSE LET indicator == mbr.partions[i].boot_indicator IN
         IF indicator # 0 /\ indicator # BOOTABLE THEN i
         ELSE check_indicators(mbr, i + 1)

\* indicators_first: the boot indicators are checked before the magic.
MasterBootRecord_from_indicators_first(image, io) ==
    LET buf == dev_read_sector(image, io) IN
    IF io.tag = "Err" THEN Err("Io", io.kind, None)
    ELSE IF io.n # SECTOR_LEN THEN Err("Io", "UnexpectedEof", None)
    ELSE LET mbr == MasterBootRecord_cast(buf)
             bad == check_indicators(mbr, 0) IN
         IF bad # None THEN Err("UnknownBootIndicator", "", bad)
         ELSE IF mbr.magic # MAGIC THEN Err("BadSignature", "", None)
         ELSE Ok(mbr)

\* no_length_check: the number of bytes read is not looked at.
MasterBootRecord_from_no_length_check(image, io) ==
    LET buf == dev_read_sector(image, io) IN
    IF io.tag = "Err" THEN Err("Io", io.kind, None)
    ELSE LET mbr == MasterBootRecord_cast(buf)
             bad == check_indicators(mbr, 0) IN
         IF mbr.magic # MAGIC THEN Err("BadSignature", "", None)
         ELSE IF bad # None THEN Err("UnknownBootIndicator", "", bad)
         ELSE Ok(mbr)

(***************************************************************************)
(* MasterBootRecord::from(dev), on a device whose sector 0 holds image and  *)
(* whose read_sector returns io.                                            *)
(***************************************************************************)
MasterBootRecord_from(image, io) ==
    LET buf == dev_read_sector(image, io) IN
    IF io.tag = "Err" THEN Err("Io", io.kind, None)
    ELSE IF io.n # SECTOR_LEN THEN Err("Io", "UnexpectedEof", None)
    ELSE LET mbr == MasterBootRecord_cast(buf)
             bad == check_indicators(mbr, 0) IN
         IF mbr.magic # MAGIC THEN Err("BadSignature", "", None)
         ELSE IF bad # None THEN Err("UnknownBootIndicator", "", bad)
         ELSE Ok(mbr)

\* last_match: the last matching entry is returned (rfind).
RECURSIVE fat32_partition_last_match(_, _)
fat32_partition_last_match(mbr, i) ==
    IF i = 4 THEN None
    ELSE LET x == mbr.partions[i]
             rest == fat32_partition_last_match(mbr, i + 1) IN
         IF rest # None THEN rest
         ELSE IF x.partition_type = 11 \/ x.partition_type = 12 THEN i
         ELSE None

\* self.partions.iter().find(|x| x.partition_type == 0xB || ... == 0xC),
\* from entry i on: the index of the entry the returned reference points
\* to, or None.
RECURSIVE fat32_partition(_, _)
fat32_partition(mbr, i) ==
    IF i = 4 THEN None
    ELSE LET x == mbr.partions[i] IN
         IF x.partition_type = 11 \/ x.partition_type = 12 THEN i
         ELSE fat32_partition(mbr, i + 1)

\* The (boot indicator, partition type) pairs a partition entry is given:
\* unused, bootable FAT32 (CHS), FAT32 (LBA), unknown indicator, bootable
\* Linux.
EntryKinds ==
    {[ind |-> 0, type |-> 0], [ind |-> BOOTABLE, type |-> 11],
     [ind |-> 0, type |-> 12], [ind |-> 1, type |-> 11],
     [ind |-> BOOTABLE, type |-> 131]}

\* The last two bytes of a sector: the magic and two that are not.
Magics == {MAGIC, <<85, 0>>, <<170, 85>>}

\* Every byte of a sector that the inputs do not choose.
filler(o) == (o * 37 + 11) % 256

\* A sector 0: magic in bytes 510..511, the four 16-byte partition entries
\* from byte 446 with kinds[k] in entry k's bytes 0 and 4; the rest is filler.
MbrImage(magic, kinds) ==
    [o \in 0 .. SECTOR_LEN - 1 |->
        IF o >= 510 THEN magic[o - 509]
        ELSE IF o >= 446 /\ (o - 446) % 16 = 0 THEN kinds[(o - 446) \div 16].ind
        ELSE IF o >= 446 /\ (o - 446) % 16 = 4 THEN kinds[(o - 446) \div 16].type
        ELSE filler(o)]

MbrImages ==
    {MbrImage(magic, kinds) : magic \in Magics, kinds \in [0 .. 3 -> EntryKinds]}

NoIo == [tag |-> "", n |-> 0, kind |-> ""]
NoResult == [res |-> "", err |-> "", kind |-> "", index |-> None, val |-> NoMbr]

InitMbr ==
    /\ CacheOff
    /\ sv = NoStackVec
    /\ mem = NoMem
    /\ sh = NoShell
    /\ boot = NoBoot
    /\ parse \in {[stage |-> "image", image |-> image, io |-> NoIo,
                   out |-> NoResult, ret |-> NotTranslated] :
                     image \in MbrImages}

\* let r = MasterBootRecord::from(dev)
MbrFrom(io) ==
    /\ parse.stage = "image"
    /\ parse' = [parse EXCEPT !.stage = "from", !.io = io,
                              !.out = MasterBootRecord_from(parse.image, io)]
    /\ UNCHANGED notParse

\* let p = mbr.fat32_partition(), on the mbr that from returned
MbrFat32Partition ==
    /\ parse.stage = "from"
    /\ parse.out.res = "Ok"
    /\ parse' = [parse EXCEPT !.stage = "fat32_partition",
                              !.ret = fat32_partition(parse.out.val, 0)]
    /\ UNCHANGED notParse

NextMbr ==
    \/ \E io \in ReadOutcomes : MbrFrom(io)
    \/ MbrFat32Partition

SpecMbr == InitMbr /\ [][NextMbr]_vars

(***************************************************************************)
(* Claims about MasterBootRecord (specification SpecMbr).  The offsets are  *)
(* those of the on-disk format: the partition table starts at byte 446,     *)
(* an entry has 16 bytes, the magic is in bytes 510..511.                   *)
(***************************************************************************)
\* from has returned, after a read of all 512 bytes of sector 0.
MbrFullyRead ==
    /\ parse.stage \in {"from", "fat32_partition"}
    /\ parse.io.tag = "Ok"
    /\ parse.io.n = 512

MbrMagicValid == parse.image[510] = 85 /\ parse.image[511] = 170

\* The entries of sector 0 whose boot indicator is neither 0x00 nor 0x80.
MbrBadEntries == {k \in 0 .. 3 : parse.image[446 + 16 * k] \notin {0, 128}}

\* The little-endian u32 in bytes o..o+3 of sector 0, as its 16-bit halves.
MbrRawU32(o) ==
    [lo |-> parse.image[o] + 256 * parse.image[o + 1],
     hi |-> parse.image[o + 2] + 256 * parse.image[o + 3]]

\* C15: a fully read sector 0 with magic 0x55,0xAA and four boot indicators
\* in {0x00, 0x80} parses, and every field of every decoded partition entry
\* (type at entry offset 4, starting LBA at 8, sector count at 12,
\* little-endian) and the magic are the sector's bytes at those offsets.
C15_ValidMbrParses ==
    (MbrFullyRead /\ MbrMagicValid /\ MbrBadEntries = {}) =>
        /\ parse.out.res = "Ok"
        /\ parse.out.val.magic = <<parse.image[510], parse.image[511]>>
        /\ \A k \in 0 .. 3 :
             LET e == parse.out.val.partions[k]
                 b == 446 + 16 * k IN
             /\ e.boot_indicator = parse.image[b]
             /\ e.start_chs = <<parse.image[b + 1], parse.image[b + 2],
                                parse.image[b + 3]>>
             /\ e.partition_type = parse.image[b + 4]
             /\ e.end_chs = <<parse.image[b + 5], parse.image[b + 6],
                              parse.image[b + 7]>>
             /\ e.sector_offset = MbrRawU32(b + 8)
             /\ e.num_sectors = MbrRawU32(b + 12)

\* A valid sector 0 was parsed; its entry 0 is bootable and its starting LBA
\* and sector count have more than one non-zero byte.
C15_Witness ==
    /\ parse.stage = "from"
    /\ parse.out.res = "Ok"
    /\ parse.image[446] = 128
    /\ parse.out.val.partions[0].sector_offset.lo > 255
    /\ parse.out.val.partions[0].num_sectors.hi > 255

\* C16: a fully read sector 0 whose last two bytes are not 0x55,0xAA fails
\* with BadSignature, whatever its boot indicators are.
C16_BadMagic ==
    (MbrFullyRead /\ ~MbrMagicValid) =>
        /\ parse.out.res = "Err"
        /\ parse.out.err = "BadSignature"

\* A sector 0 with a wrong magic and an unknown boot indicator in entry 0
\* was parsed.
C16_Witness ==
    /\ MbrFullyRead
    /\ ~MbrMagicValid
    /\ 0 \in MbrBadEntries
    /\ parse.out.err = "BadSignature"

\* C17: a fully read sector 0 with valid magic and some boot indicator other
\* than 0x00 and 0x80 fails with UnknownBootIndicator(k), k the lowest index
\* of such an entry.
C17_LowestBadIndicator ==
    (MbrFullyRead /\ MbrMagicValid /\ MbrBadEntries # {}) =>
        /\ parse.out.res = "Err"
        /\ parse.out.err = "UnknownBootIndicator"
        /\ parse.out.index \in MbrBadEntries
        /\ \A k \in MbrBadEntries : parse.out.index <= k

\* Entries 1 and 3 have unknown boot indicators, entry 0 has not; 1 is
\* reported.
C17_Witness ==
    /\ MbrFullyRead
    /\ MbrMagicValid
    /\ MbrBadEntries = {1, 3}
    /\ parse.out.index = 1

\* C18: when the read of sector 0 returns an error or fewer than 512 bytes,
\* from fails with Io: with the device's error, or with UnexpectedEof for
\* the short read.
C18_IoError ==
    (parse.stage = "from" /\ (parse.io.tag = "Err" \/ parse.io.n < 512)) =>
        /\ parse.out.res = "Err"
        /\ parse.out.err = "Io"
        /\ parse.out.kind =
             IF parse.io.tag = "Err" THEN parse.io.kind ELSE "UnexpectedEof"

\* 511 bytes were read of a sector 0 that has an unknown boot indicator.
C18_Witness ==
    /\ parse.stage = "from"
    /\ parse.io.tag = "Ok"
    /\ parse.io.n = 511
    /\ MbrBadEntries # {}
    /\ parse.out.err = "Io"
    /\ parse.out.kind = "UnexpectedEof"

\* The entries of sector 0 whose type byte is 0x0B or 0x0C.
MbrFat32Entries == {k \in 0 .. 3 : parse.image[446 + 16 * k + 4] \in {11, 12}}

\* C19: fat32_partition on a parsed MBR returns the entry of lowest index
\* whose type is 0x0B or 0x0C, and None exactly when there is none.
C19_FirstFat32 ==
    parse.stage = "fat32_partition" =>
        /\ (parse.ret = None) <=> (MbrFat32Entries = {})
        /\ parse.ret # None =>
             /\ parse.ret \in MbrFat32Entries
             /\ \A k \in MbrFat32Entries : parse.ret <= k

\* Entries 1 (type 0x0C) and 3 (type 0x0B) are FAT32, entry 0 is not; entry
\* 1 is returned.
C19_Witness ==
    /\ parse.stage = "fat32_partition"
    /\ parse.image[446 + 4] = 131
    /\ parse.image[462 + 4] = 12
    /\ parse.image[494 + 4] = 11
    /\ parse.ret = 1

(***************************************************************************)
(* BiosParameterBlock (vfat/ebpb.rs)                                        *)
(***************************************************************************)
\* The fields of the packed struct BiosParameterBlock, in declaration
\* order: name, size in bytes, and type (u8, u16, u32 or a byte array).
BiosParameterBlockLayout ==
    <<[name |-> "jump_code",          size |-> 3,   ty |-> "bytes"],
      [name |-> "oem_ident",          size |-> 8,   ty |-> "bytes"],
      [name |-> "bytes_per_sector",   size |-> 2,   ty |-> "u16"],
      [name |-> "sectors_per_cluster", size |-> 1,  ty |-> "u8"],
      [name |-> "reserved_sectors",   size |-> 2,   ty |-> "u16"],
      [name |-> "num_fats",           size |-> 1,   ty |-> "u8"],
      [name |-> "max_dir_entries",    size |-> 2,   ty |-> "u16"],
      [name |-> "logical_sectors_1",  size |-> 2,   ty |-> "u16"],
      [name |-> "media_descriptor",   size |-> 1,   ty |-> "u8"],
      [name |-> "__sectors_per_fat",  size |-> 2,   ty |-> "u16"],
      [name |-> "sector_per_track",   size |-> 2,   ty |-> "u16"],
      [name |-> "num_heads",          size |-> 2,   ty |-> "u16"],
      [name |-> "num_hidden_sectors", size |-> 4,   ty |-> "u32"],
      [name |-> "logical_sectors_2",  size |-> 4,   ty |-> "u32"],
      [name |-> "sectors_per_fat",    size |-> 4,   ty |-> "u32"],
      [name |-> "flags",              size |-> 2,   ty |-> "u16"],
      [name |-> "fat_version",        size |-> 2,   ty |-> "u16"],
      [name |-> "root_cluster",       size |-> 4,   ty |-> "u32"],
      [name |-> "fsinfo_sector",      size |-> 2,   ty |-> "u16"],
      [name |-> "backup_boot_sector", size |-> 2,   ty |-> "u16"],
      [name |-> "_reserved",          size |-> 12,  ty |-> "bytes"],
      [name |-> "drive_number",       size |-> 1,   ty |-> "u8"],
      [name |-> "nt_flags",           size |-> 1,   ty |-> "u8"],
      [name |-> "signature",          size |-> 1,   ty |-> "u8"],
      [name |-> "volumeid_serial",    size |-> 4,   ty |-> "u32"],
      [name |-> "volume_label",       size |-> 11,  ty |-> "bytes"],
      [name |-> "system_identifer",   size |-> 8,   ty |-> "bytes"],
      [name |-> "boot_code",          size |-> 420, ty |-> "bytes"],
      [name |-> "magic",              size |-> 2,   ty |-> "bytes"]>>

\* The value of the field f of a packed struct that lies at offset off.
field_at(buf, off, f) ==
    CASE f.ty = "u8"    -> buf[off]
      [] f.ty = "u16"   -> u16_at(buf, off)
      [] f.ty = "u32"   -> u32_at(buf, off)
      [] f.ty = "bytes" -> bytes_at(buf, off, f.size)

\* &*(buf.as_ptr() as *const BiosParameterBlock): the struct that lies over
\* the 512 bytes of buf, a record with one field per field of the struct.
BiosParameterBlock_cast(buf) ==
    LET fields == {BiosParameterBlockLayout[i] :
                     i \in DOMAIN BiosParameterBlockLayout} IN
    [name \in {f.name : f \in fields} |->
        LET f == CHOOSE g \in fields : g.name = name IN
        field_at(buf, offset_of(BiosParameterBlockLayout, name), f)]

\* The bytes that device.read_sector(sector, _) reads from: sector `sector`
\* if the device has one (a device is the sequence of its sectors).
device_sector(dev, sector) ==
    IF sector < Len(dev) THEN dev[sector + 1]
    ELSE [o \in 0 .. SECTOR_LEN - 1 |-> 0]

\* magic_and_signature: BadSignature only if magic and signature are both
\* wrong.
BiosParameterBlock_from_magic_and_signature(dev, sector, io) ==
    LET buf == dev_read_sector(device_sector(dev, sector), io) IN
    IF io.tag = "Err" THEN Err("Io", io.kind, None)
    ELSE IF io.n # SECTOR_LEN THEN Err("Io", "UnexpectedEof", None)
    ELSE LET block == BiosParameterBlock_cast(buf) IN
         IF block.magic # MAGIC
            /\ (block.signature # 40 /\ block.signature # 41)
         THEN Err("BadSignature", "", None)
         ELSE Ok(block)

\* sector_zero: the first sector of the device is read, whatever sector is.
BiosParameterBlock_from_sector_zero(dev, sector, io) ==
    LET buf == dev_read_sector(device_sector(dev, 0), io) IN
    IF io.tag = "Err" THEN Err("Io", io.kind, None)
    ELSE IF io.n # SECTOR_LEN THEN Err("Io", "UnexpectedEof", None)
    ELSE LET block == BiosParameterBlock_cast(buf) IN
         IF block.magic # MAGIC
            \/ (block.signature # 40 /\ block.signature # 41)
         THEN Err("BadSignature", "", None)
         ELSE Ok(block)

(***************************************************************************)
(* BiosParameterBlock::from(device, sector), with device.read_sector       *)
(* returning io.  e.into() makes Error::Io(e) of the device's error.        *)
(***************************************************************************)
BiosParameterBlock_from(dev, sector, io) ==
    LET buf == dev_read_sector(device_sector(dev, sector), io) IN
    IF io.tag = "Err" THEN Err("Io", io.kind, None)
    ELSE IF io.n # SECTOR_LEN THEN Err("Io", "UnexpectedEof", None)
    ELSE LET block == BiosParameterBlock_cast(buf) IN
         IF block.magic # MAGIC
            \/ (block.signature # 40 /\ block.signature # 41)
         THEN Err("BadSignature", "", None)
         ELSE Ok(block)

\* self.logical_sectors_1 as u32
u16_as_u32(v) == [lo |-> v, hi |-> 0]

\* prefers_32: the 32-bit field is returned unless it is zero.
logical_sectors_prefers_32(self) ==
    IF self.logical_sectors_2 # u16_as_u32(0)
    THEN self.logical_sectors_2
    ELSE u16_as_u32(self.logical_sectors_1)

\* BiosParameterBlock::logical_sectors(&self)
logical_sectors(self) ==
    IF self.logical_sectors_1 > 0
    THEN u16_as_u32(self.logical_sectors_1)
    ELSE self.logical_sectors_2

\* The extended-signature bytes a sector is given: the two valid ones and
\* two that are not.
Signatures == {40, 41, 0, 42}

\* The 16-bit logical sector counts a sector is given: none, and 0x1234.
LogicalSectors1 == {0, 4660}

\* A sector that holds a BPB: magic in bytes 510..511, the extended
\* signature in byte 66, the 16-bit logical sector count in bytes 19..20,
\* the 32-bit one (bytes 32..35) zero or not; the rest is filler.
EbpbSector(magic, signature, ls1, ls2_zero, seed) ==
    [o \in 0 .. SECTOR_LEN - 1 |->
        IF o >= 510 THEN magic[o - 509]
        ELSE IF o = 66 THEN signature
        ELSE IF o = 19 THEN ls1 % 256
        ELSE IF o = 20 THEN ls1 \div 256
        ELSE IF o \in 32 .. 35 /\ ls2_zero THEN 0
        ELSE (filler(o) + seed) % 256]

\* The devices parsed: one sector, or two of which the second holds a valid
\* BPB of its own.
EbpbDevices ==
    LET first == {EbpbSector(magic, signature, ls1, ls2_zero, 0) :
                     magic \in Magics, signature \in Signatures,
                     ls1 \in LogicalSectors1, ls2_zero \in BOOLEAN}
        second == EbpbSector(MAGIC, 41, 0, FALSE, 101) IN
    {<<a>> : a \in first} \cup {<<a, second>> : a \in first}

\* What device.read_sector(sector, _) can return on dev: anything for a
\* sector the device has, an error or no bytes for one it has not.
EbpbIoFor(dev, sector) ==
    IF sector < Len(dev) THEN ReadOutcomes
    ELSE {io \in ReadOutcomes : io.tag = "Err" \/ io.n = 0}

InitEbpb ==
    /\ CacheOff
    /\ sv = NoStackVec
    /\ mem = NoMem
    /\ sh = NoShell
    /\ boot = NoBoot
    /\ parse \in {[stage |-> "image", device |-> dev, sector |-> None,
                   io |-> NoIo, out |-> NoResult,
                   ret |-> u16_as_u32(0)] : dev \in EbpbDevices}

\* let r = BiosParameterBlock::from(device, sector)
EbpbFrom(sector, io) ==
    /\ parse.stage = "image"
    /\ parse' = [parse EXCEPT
                   !.stage = "from", !.sector = sector, !.io = io,
                   !.out = BiosParameterBlock_from(parse.device, sector, io)]
    /\ UNCHANGED notParse

\* let n = block.logical_sectors(), on the block that from returned
EbpbLogicalSectors ==
    /\ parse.stage = "from"
    /\ parse.out.res = "Ok"
    /\ parse' = [parse EXCEPT !.stage = "logical_sectors",
                              !.ret = logical_sectors(parse.out.val)]
    /\ UNCHANGED notParse

NextEbpb ==
    \/ \E sector \in 0 .. 2 : \E io \in EbpbIoFor(parse.device, sector) :
         EbpbFrom(sector, io)
    \/ EbpbLogicalSectors

SpecEbpb == InitEbpb /\ [][NextEbpb]_vars

(***************************************************************************)
(* Claims about BiosParameterBlock (specification SpecEbpb).                *)
(***************************************************************************)
\* from has returned, after a read of all 512 bytes of the sector asked for.
EbpbFullyRead ==
    /\ parse.stage \in {"from", "logical_sectors"}
    /\ parse.io.tag = "Ok"
    /\ parse.io.n = 512

\* The sector that from was asked to parse.
EbpbRaw == parse.device[parse.sector + 1]

\* C20: parsing a fully read sector fails with BadSignature exactly when
\* its bytes 510..511 are not 0x55,0xAA or its byte 66 is neither 0x28 nor
\* 0x29, and succeeds otherwise.
C20_BadSignatureExactly ==
    EbpbFullyRead =>
        LET bad == \/ <<EbpbRaw[510], EbpbRaw[511]>> # <<85, 170>>
                   \/ EbpbRaw[66] \notin {40, 41} IN
        /\ bad => (parse.out.res = "Err" /\ parse.out.err = "BadSignature")
        /\ ~bad => parse.out.res = "Ok"

\* A sector with valid magic and extended signature 0x2A was parsed.
C20_Witness ==
    /\ EbpbFullyRead
    /\ <<EbpbRaw[510], EbpbRaw[511]>> = <<85, 170>>
    /\ EbpbRaw[66] = 42
    /\ parse.out.err = "BadSignature"

\* The little-endian u16 in bytes o..o+1 of the sector parsed.
EbpbRawU16(o) == EbpbRaw[o] + 256 * EbpbRaw[o + 1]

\* The little-endian u32 in bytes o..o+3 of the sector parsed, as its
\* 16-bit halves.
EbpbRawU32(o) == [lo |-> EbpbRawU16(o), hi |-> EbpbRawU16(o + 2)]

\* C21: from fails with Io when the read of the sector asked for errors
\* (with the device's error) or returns fewer than 512 bytes
\* (UnexpectedEof), as it does for a sector index beyond the end of the
\* device; and the block it returns is made of the bytes of the sector
\* asked for, not of another sector.
C21_ReadsGivenSector ==
    parse.stage \in {"from", "logical_sectors"} =>
        /\ (parse.io.tag = "Err" \/ parse.io.n < 512) =>
             /\ parse.out.res = "Err"
             /\ parse.out.err = "Io"
             /\ parse.out.kind = IF parse.io.tag = "Err" THEN parse.io.kind
                                 ELSE "UnexpectedEof"
        /\ parse.sector >= Len(parse.device) =>
             (parse.out.res = "Err" /\ parse.out.err = "Io")
        /\ parse.out.res = "Ok" =>
             /\ parse.sector < Len(parse.device)
             /\ parse.out.val.oem_ident = [i \in 1 .. 8 |-> EbpbRaw[2 + i]]
             /\ parse.out.val.boot_code = [i \in 1 .. 420 |-> EbpbRaw[89 + i]]

\* Sector 1 of a one-sector device was asked for: Io.
C21_Witness ==
    /\ parse.stage = "from"
    /\ Len(parse.device) = 1
    /\ parse.sector = 1
    /\ parse.out.err = "Io"

\* C22: logical_sectors returns the 16-bit field (bytes 19..20) whenever it
\* is nonzero, and the 32-bit field (bytes 32..35) when the 16-bit field is
\* zero.
C22_LogicalSectors ==
    parse.stage = "logical_sectors" =>
        /\ EbpbRawU16(19) # 0 =>
             parse.ret = [lo |-> EbpbRawU16(19), hi |-> 0]
        /\ EbpbRawU16(19) = 0 => parse.ret = EbpbRawU32(32)

\* Both fields are nonzero and differ; the 16-bit one is returned.
C22_Witness ==
    /\ parse.stage = "logical_sectors"
    /\ EbpbRawU16(19) = 4660
    /\ EbpbRawU32(32).hi > 0
    /\ parse.ret = [lo |-> 4660, hi |-> 0]

\* C23: the fields of a parsed BiosParameterBlock are the little-endian
\* values at the documented offsets of the sector: bytes/sector at 11,
\* sectors/cluster at 13, reserved sectors at 14, number of FATs at 16,
\* 32-bit logical sectors at 32, sectors/FAT at 36, root cluster at 44,
\* extended signature at 66, magic at 510; the record has 512 bytes.
C23_FieldOffsets ==
    (parse.stage \in {"from", "logical_sectors"} /\ parse.out.res = "Ok") =>
        LET block == parse.out.val IN
        /\ block.bytes_per_sector = EbpbRawU16(11)
        /\ block.sectors_per_cluster = EbpbRaw[13]
        /\ block.reserved_sectors = EbpbRawU16(14)
        /\ block.num_fats = EbpbRaw[16]
        /\ block.logical_sectors_1 = EbpbRawU16(19)
        /\ block.logical_sectors_2 = EbpbRawU32(32)
        /\ block.sectors_per_fat = EbpbRawU32(36)
        /\ block.root_cluster = EbpbRawU32(44)
        /\ block.signature = EbpbRaw[66]
        /\ block.magic = <<EbpbRaw[510], EbpbRaw[511]>>
        /\ size_of(BiosParameterBlockLayout) = 512

\* The second sector of a device was parsed; its sectors/FAT and root
\* cluster have more than one nonzero byte.
C23_Witness ==
    /\ parse.stage = "from"
    /\ parse.sector = 1
    /\ parse.out.res = "Ok"
    /\ parse.out.val.sectors_per_fat.hi > 255
    /\ parse.out.val.root_cluster.lo > 255

(***************************************************************************)
(* Part 3.  StackVec (lib/stack-vec/src/lib.rs): a vector in a slice that   *)
(* its user supplies.  A StackVec is [storage, len]; storage is 1-indexed   *)
(* here, so the source's storage[i] is storage[i + 1].                      *)
(***************************************************************************)
MaxCapacity == 2        \* the slices supplied hold 0..MaxCapacity elements

\* The values of T.
StackVals == {0, 1}

\* The slices a StackVec is made over.
Storages == UNION {[1 .. n -> StackVals] : n \in 0 .. MaxCapacity}

\* StackVec::new(storage)
StackVec_new(storage) == [storage |-> storage, len |-> 0]

\* StackVec::with_len(storage, len): the StackVec, or the panic.
with_len(storage, len) ==
    IF len > Len(storage)
    THEN [res |-> "Panic", self |-> StackVec_new(<<>>)]
    ELSE [res |-> "Ok", self |-> [storage |-> storage, len |-> len]]

capacity(self) == Len(self.storage)

\* sets_len: the length becomes len, also when that is more.
truncate_sets_len(self, len) == [self EXCEPT !.len = len]

truncate(self, len) == [self EXCEPT !.len = min(self.len, len)]

\* as_slice: &self.storage[..self.len]
as_slice(self) == SubSeq(self.storage, 1, self.len)

is_empty(self) == self.len = 0

is_full(self) == self.len = Len(self.storage)

\* overwrites_when_full: a full vector's last element is replaced.
push_overwrites_when_full(self, value) ==
    IF is_full(self)
    THEN [self |-> IF self.len = 0 THEN self
                   ELSE [self EXCEPT !.storage[self.len] = value],
          ret |-> "Err"]
    ELSE [self |-> [storage |-> [self.storage EXCEPT ![self.len + 1] = value],
                    len |-> self.len + 1],
          ret |-> "Ok"]

\* StackVec::push(&mut self, value): self afterwards, and the Result.
push(self, value) ==
    IF is_full(self)
    THEN [self |-> self, ret |-> "Err"]
    ELSE [self |-> [storage |-> [self.storage EXCEPT ![self.len + 1] = value],
                    len |-> self.len + 1],
          ret |-> "Ok"]

\* pop_front: the first element is returned.
pop_front(self) ==
    IF is_empty(self)
    THEN [self |-> self, ret |-> None]
    ELSE [self |-> [self EXCEPT !.len = self.len - 1],
          ret |-> self.storage[1]]

\* StackVec::pop(&mut self): self afterwards, and the Option (a value of T,
\* or None).
pop(self) ==
    IF is_empty(self)
    THEN [self |-> self, ret |-> None]
    ELSE LET len == self.len - 1 IN
         [self |-> [self EXCEPT !.len = len],
          ret |-> self.storage[len + 1]]

\* The StackVec of the state.
SvSelf == [storage |-> sv.storage, len |-> sv.len]

\* The state after a call op(arg) that returned ret and left self.  pushed
\* is the history of the vector: the values pushed and not yet popped or
\* truncated away, oldest first.
SvAfter(op, arg, ret, self, pushed) ==
    [stage |-> "live", storage |-> self.storage, len |-> self.len,
     given |-> sv.given, pushed |-> pushed,
     op |-> op, arg |-> arg, ret |-> ret,
     pre |-> [storage |-> sv.storage, len |-> sv.len, pushed |-> sv.pushed]]

InitStackVec ==
    /\ CacheOff
    /\ parse = NoParse
    /\ mem = NoMem
    /\ sh = NoShell
    /\ boot = NoBoot
    /\ sv \in {[stage |-> "storage", storage |-> storage, len |-> 0,
                given |-> storage, pushed |-> <<>>,
                op |-> "", arg |-> None, ret |-> None,
                pre |-> [storage |-> storage, len |-> 0, pushed |-> <<>>]] :
                 storage \in Storages}

\* let mut v = StackVec::new(&mut storage)
SvNew ==
    /\ sv.stage = "storage"
    /\ sv' = SvAfter("new", None, None, StackVec_new(sv.storage), <<>>)
    /\ UNCHANGED notStackVec

\* let mut v = StackVec::with_len(&mut storage, len)
SvWithLen(len) ==
    /\ sv.stage = "storage"
    /\ LET r == with_len(sv.storage, len) IN
       sv' = IF r.res = "Panic"
             THEN [sv EXCEPT !.stage = "panicked", !.op = "with_len",
                             !.arg = len]
             ELSE SvAfter("with_len", len, None, r.self,
                          SubSeq(sv.storage, 1, len))
    /\ UNCHANGED notStackVec

\* v.push(value)
SvPush(value) ==
    /\ sv.stage = "live"
    /\ LET r == push(SvSelf, value) IN
       sv' = SvAfter("push", value, r.ret, r.self,
                     IF Len(sv.pushed) < Len(sv.given)
                     THEN Append(sv.pushed, value)
                     ELSE sv.pushed)
    /\ UNCHANGED notStackVec

\* v.pop()
SvPop ==
    /\ sv.stage = "live"
    /\ LET r == pop(SvSelf) IN
       sv' = SvAfter("pop", None, r.ret, r.self,
                     SubSeq(sv.pushed, 1, Len(sv.pushed) - 1))
    /\ UNCHANGED notStackVec

\* v.truncate(len)
SvTruncate(len) ==
    /\ sv.stage = "live"
    /\ sv' = SvAfter("truncate", len, None, truncate(SvSelf, len),
                     SubSeq(sv.pushed, 1, min(Len(sv.pushed), len)))
    /\ UNCHANGED notStackVec

NextStackVec ==
    \/ SvNew
    \/ \E len \in 0 .. MaxCapacity + 1 : SvWithLen(len)
    \/ \E value \in StackVals : SvPush(value)
    \/ SvPop
    \/ \E len \in 0 .. MaxCapacity + 1 : SvTruncate(len)

SpecStackVec == InitStackVec /\ [][NextStackVec]_vars

(***************************************************************************)
(* Claims about StackVec (specification SpecStackVec).                      *)
(***************************************************************************)
\* C24: push on a full vector returns Err and leaves length and contents as
\* they were; on a vector that is not full it stores the value at index
\* len, leaves the elements before it, adds one to len and returns Ok.
C24_Push ==
    (sv.stage = "live" /\ sv.op = "push") =>
        IF sv.pre.len = Len(sv.given)
        THEN /\ sv.ret = "Err"
             /\ sv.len = sv.pre.len
             /\ sv.storage = sv.pre.storage
        ELSE /\ sv.ret = "Ok"
             /\ sv.len = sv.pre.len + 1
             /\ sv.storage[sv.pre.len + 1] = sv.arg
             /\ \A i \in 1 .. sv.pre.len : sv.storage[i] = sv.pre.storage[i]

\* A value was pushed on a full vector that holds another value.
C24_Witness ==
    /\ sv.stage = "live"
    /\ sv.op = "push"
    /\ sv.ret = "Err"
    /\ sv.len = 2
    /\ sv.storage[2] # sv.arg

\* C25: the elements of the vector are the values pushed and not popped;
\* pop returns the one pushed last and takes one from len; on an empty
\* vector it returns None and changes nothing.
C25_Pop ==
    sv.stage = "live" =>
        /\ as_slice(SvSelf) = sv.pushed
        /\ sv.op = "pop" =>
             IF sv.pre.pushed = <<>>
             THEN /\ sv.ret = None
                  /\ sv.len = sv.pre.len
                  /\ sv.storage = sv.pre.storage
             ELSE /\ sv.ret = sv.pre.pushed[Len(sv.pre.pushed)]
                  /\ sv.len = sv.pre.len - 1

\* 0 and then 1 had been pushed; pop returned 1.
C25_Witness ==
    /\ sv.stage = "live"
    /\ sv.op = "pop"
    /\ sv.pre.pushed = <<0, 1>>
    /\ sv.ret = 1
    /\ sv.len = 1

\* C26: 0 <= len <= capacity, and capacity is the length of the slice
\* supplied; truncate(n) makes len min(len, n) and leaves the storage;
\* with_len panics exactly if len is more than the slice holds.
C26_LenWithinCapacity ==
    /\ sv.stage = "live" =>
         /\ 0 <= sv.len
         /\ sv.len <= capacity(SvSelf)
         /\ capacity(SvSelf) = Len(sv.given)
         /\ sv.op = "truncate" =>
              /\ sv.len = (IF sv.pre.len <= sv.arg THEN sv.pre.len ELSE sv.arg)
              /\ sv.storage = sv.pre.storage
    /\ sv.op = "with_len" =>
         /\ (sv.stage = "panicked") <=> (sv.arg > Len(sv.given))
         /\ sv.stage = "live" => sv.len = sv.arg

\* truncate was called with more than the capacity.
C26_Witness ==
    /\ sv.stage = "live"
    /\ sv.op = "truncate"
    /\ sv.arg > capacity(SvSelf)
    /\ sv.len = sv.pre.len
    /\ sv.len > 0

(***************************************************************************)
(* Part 4.  The kernel's allocator (kern/src/allocator).  A usize is the    *)
(* set of the positions of its one bits, 0 the least significant: all 64    *)
(* bits are kept, & is intersection and ! is complement.                    *)
(***************************************************************************)
USIZE_BITS == 64

BitPos == 0 .. USIZE_BITS - 1

RECURSIVE pow2(_)
pow2(i) == IF i = 0 THEN 1 ELSE 2 * pow2(i - 1)

\* The usize of a number below 2^31.
usize_of(n) == {i \in 0 .. 30 : (n \div pow2(i)) % 2 = 1}

usize_MAX == BitPos

\* The literal 1.
usize_1 == usize_of(1)

bitand(x, y) == x \cap y

bitnot(x) == BitPos \ x

\* x > y: the highest bit in which they differ is x's.
usize_gt(x, y) == \E i \in x \ y : \A j \in y \ x : j < i

\* The positions from i up that a carry of x + y comes into, c telling
\* whether one comes into i.  Position 64 stands for the carry out.
RECURSIVE carry_set(_, _, _, _)
carry_set(x, y, i, c) ==
    IF i > USIZE_BITS THEN {}
    ELSE (IF c THEN {i} ELSE {})
         \cup carry_set(x, y, i + 1,
                        (i \in x /\ i \in y) \/ (c /\ (i \in x \/ i \in y)))

\* Whether a carry of x + y comes into position i.
carry_into(x, y, i) == i \in carry_set(x, y, 0, FALSE)

\* The one bits of x + y from position i up, c telling whether a carry
\* comes into i.
RECURSIVE sum_bits(_, _, _, _)
sum_bits(x, y, i, c) ==
    IF i = USIZE_BITS THEN {}
    ELSE (IF ((i \in x) # (i \in y)) # c THEN {i} ELSE {})
         \cup sum_bits(x, y, i + 1,
                       (i \in x /\ i \in y) \/ (c /\ (i \in x \/ i \in y)))

\* x + y modulo 2^64
wrapping_add(x, y) == sum_bits(x, y, 0, FALSE)

\* x - y modulo 2^64: x + !y + 1
wrapping_sub(x, y) == wrapping_add(x, wrapping_add(bitnot(y), usize_1))

\* What a function of the kernel returns, or that it panicked.
Returns(v) == [res |-> "Ok", val |-> v]
Panics == [res |-> "Panic", val |-> {}]

\* The build's overflow checks: on (a debug build), x + y and x - y panic
\* when they overflow; off (a release build), they wrap.
OverflowChecks == mem.checks

\* x - y
usize_sub(x, y) ==
    IF usize_gt(y, x) /\ OverflowChecks THEN Panics
    ELSE Returns(wrapping_sub(x, y))

\* x + y
usize_add(x, y) ==
    IF carry_into(x, y, USIZE_BITS) /\ OverflowChecks THEN Panics
    ELSE Returns(wrapping_add(x, y))

\* x.checked_add(y).unwrap()
checked_add_unwrap(x, y) ==
    IF carry_into(x, y, USIZE_BITS) THEN Panics
    ELSE Returns(wrapping_add(x, y))

\* util.rs: is_power_of_two(val) and bin.rs: power_of_two(n), the same
\* expression: (val & (val - 1)) == 0
is_power_of_two(val) ==
    LET m == usize_sub(val, usize_1) IN
    IF m.res = "Panic" THEN Panics
    ELSE Returns(bitand(val, m.val) = {})

\* util.rs: align_down(addr, align)
align_down(addr, align) ==
    LET p == is_power_of_two(align) IN
    IF p.res = "Panic" THEN Panics
    ELSE IF ~(~p.val) THEN Panics          \* assert!(!is_power_of_two(align))
    ELSE LET m == usize_sub(addr, usize_1) IN
         IF m.res = "Panic" THEN Panics
         ELSE Returns(bitand(addr, bitnot(m.val)))

\* util.rs: align_up(addr, align)
align_up(addr, align) ==
    LET p == is_power_of_two(align) IN
    IF p.res = "Panic" THEN Panics
    ELSE IF ~(~p.val) THEN Panics          \* assert!(!is_power_of_two(align))
    ELSE LET m == usize_sub(align, usize_1) IN
         IF m.res = "Panic" THEN Panics
         ELSE LET sum == checked_add_unwrap(addr, m.val) IN
              IF sum.res = "Panic" THEN Panics
              ELSE Returns(bitand(sum.val, bitnot(m.val)))

\* The addresses the functions of util.rs are called with: 0, 1, 7, 8, 9,
\* 0x1000, 0x1001, 2^63, 2^64 - 8 and 2^64 - 1.
UtilAddrs ==
    {usize_of(n) : n \in {0, 1, 7, 8, 9, 4096, 4097}}
    \cup {{USIZE_BITS - 1}, usize_MAX \ {0, 1, 2}, usize_MAX}

\* The alignments: the powers of two 1, 2, 8, 0x1000 and 2^62, and 0, 3
\* and 6, which are none.
UtilAligns ==
    {usize_of(n) : n \in {1, 2, 8, 4096, 0, 3, 6}} \cup {{USIZE_BITS - 2}}

InitUtil ==
    /\ CacheOff
    /\ parse = NoParse
    /\ sv = NoStackVec
    /\ sh = NoShell
    /\ boot = NoBoot
    /\ mem \in {[stage |-> "args", checks |-> checks, addr |-> addr,
                 align |-> align, fn |-> "", out |-> Panics] :
                  checks \in BOOLEAN, addr \in UtilAddrs,
                  align \in UtilAligns}

\* let a = align_up(addr, align)
AlignUp ==
    /\ mem.stage = "args"
    /\ mem' = [mem EXCEPT !.stage = "done", !.fn = "align_up",
                          !.out = align_up(mem.addr, mem.align)]
    /\ UNCHANGED notMem

\* let a = align_down(addr, align)
AlignDown ==
    /\ mem.stage = "args"
    /\ mem' = [mem EXCEPT !.stage = "done", !.fn = "align_down",
                          !.out = align_down(mem.addr, mem.align)]
    /\ UNCHANGED notMem

NextUtil == AlignUp \/ AlignDown

SpecUtil == InitUtil /\ [][NextUtil]_vars

(***************************************************************************)
(* Claims about util.rs (specification SpecUtil).                           *)
(***************************************************************************)
\* v is a multiple of the power of two align.
MultipleOf(v, align) == \A i \in v : \A k \in align : i >= k

\* C27: for a power of two align and addr + align - 1 within 64 bits,
\* align_up(addr, align) returns, without panicking, the smallest multiple
\* of align that is >= addr.
C27_AlignUp ==
    (/\ mem.stage = "done"
     /\ mem.fn = "align_up"
     /\ Cardinality(mem.align) = 1
     /\ ~carry_into(mem.addr, wrapping_sub(mem.align, usize_1),
                    USIZE_BITS)) =>
        /\ mem.out.res = "Ok"
        /\ MultipleOf(mem.out.val, mem.align)
        /\ ~usize_gt(mem.addr, mem.out.val)
        /\ usize_gt(mem.align, wrapping_sub(mem.out.val, mem.addr))

\* C28: for a power of two align, align_down(addr, align) returns, without
\* panicking, the largest multiple of align that is <= addr.
C28_AlignDown ==
    (/\ mem.stage = "done"
     /\ mem.fn = "align_down"
     /\ Cardinality(mem.align) = 1) =>
        /\ mem.out.res = "Ok"
        /\ MultipleOf(mem.out.val, mem.align)
        /\ ~usize_gt(mem.out.val, mem.addr)
        /\ usize_gt(mem.align, wrapping_sub(mem.addr, mem.out.val))

(***************************************************************************)
(* The bin allocator (kern/src/allocator/bin.rs).  A LinkedList of free     *)
(* blocks is the sequence of their addresses, head first.                   *)
(***************************************************************************)
MAX_BINS == 32

null_mut == {}

\* core::cmp::max(a, b)
usize_max(a, b) == IF usize_gt(b, a) THEN b ELSE a

\* while size > (0b1 << bin) { bin += 1 }, from bin on.  A Layout's size and
\* align are below 2^63, so the loop ends with bin <= 63.
RECURSIVE map2bin_loop(_, _)
map2bin_loop(size, bin) ==
    IF usize_gt(size, {bin}) THEN map2bin_loop(size, bin + 1) ELSE bin

map2bin(size) == map2bin_loop(size, 3) - 3

\* 0b1 << (3 + bin)
size4bin(bin) == {3 + bin}

\* node.value() as usize % layout.align() == 0, for the power of two align
value_is_aligned(value, align) == \A i \in value : \A k \in align : i >= k

\* for node in self.bins[bin].iter_mut(): the position in the list of the
\* first node whose address is aligned, or 0.
RECURSIVE first_aligned(_, _, _)
first_aligned(list, align, i) ==
    IF i > Len(list) THEN 0
    ELSE IF value_is_aligned(list[i], align) THEN i
    ELSE first_aligned(list, align, i + 1)

\* node.pop(): the list without its node at position i.
list_pop(list, i) == SubSeq(list, 1, i - 1) \o SubSeq(list, i + 1, Len(list))

\* What alloc leaves: that it returned ptr or panicked, with the
\* allocator's current and bins afterwards.
AllocResult(res, ptr, current, bins) ==
    [res |-> res, ptr |-> ptr, current |-> current, bins |-> bins]

(***************************************************************************)
(* Allocator::alloc(&mut self, layout), self being [start, current, end,    *)
(* bins] and layout [size, align].                                          *)
(***************************************************************************)
alloc(self, layout) ==
    LET asserted == is_power_of_two(layout.align)
        bin == map2bin(usize_max(layout.size, layout.align))
        node == first_aligned(self.bins[bin], layout.align, 1)
        alloc_size == size4bin(bin)
        aligned == align_up(self.current, layout.align)
        carries == carry_into(aligned.val, alloc_size, USIZE_BITS)
        start == wrapping_add(aligned.val, alloc_size)
        current == usize_add(start, alloc_size)
        unchanged(res, ptr) == AllocResult(res, ptr, self.current, self.bins)
    IN
    IF asserted.res = "Panic" \/ ~asserted.val
    THEN unchanged("Panic", null_mut)
    ELSE IF bin >= MAX_BINS THEN unchanged("Ok", null_mut)
    ELSE IF node # 0
    THEN AllocResult("Ok", self.bins[bin][node], self.current,
                     [self.bins EXCEPT ![bin] = list_pop(@, node)])
    ELSE IF aligned.res = "Panic" THEN unchanged("Panic", null_mut)
    ELSE IF carries THEN unchanged("Ok", null_mut)
    ELSE IF usize_gt(start, self.end) THEN unchanged("Ok", null_mut)
    ELSE IF current.res = "Panic" THEN unchanged("Panic", null_mut)
    ELSE AllocResult("Ok", start, current.val, self.bins)

\* The regions an allocator is made for: from 0x1000, of 0, 8, 64 and
\* 0x1000 bytes, and the last 16 bytes of the address space.
BinRegions ==
    {[start |-> usize_of(4096), end |-> usize_of(4096 + n)] :
        n \in {0, 8, 64, 4096}}
    \cup {[start |-> usize_MAX \ {0, 1, 2, 3}, end |-> usize_MAX]}

\* The layouts asked for: sizes 1, 8, 9, 24, 0x1000, 2^34, 2^34 + 1 and
\* 2^40 with alignments 1, 8, 16 and 0x1000.  A Layout's size is more than
\* 0 here and its align a power of two.
BinLayouts ==
    [size : {usize_of(n) : n \in {1, 8, 9, 24, 4096}}
              \cup {{34}, {34, 0}, {40}},
     align : {usize_of(n) : n \in {1, 8, 16, 4096}}]

NoLayout == [size |-> {}, align |-> {}]

InitBin ==
    /\ CacheOff
    /\ parse = NoParse
    /\ sv = NoStackVec
    /\ sh = NoShell
    /\ boot = NoBoot
    /\ mem \in {[stage |-> "region", checks |-> checks,
                 start |-> r.start, current |-> r.start, end |-> r.end,
                 bins |-> [b \in 0 .. MAX_BINS - 1 |-> <<>>],
                 op |-> "", layout |-> NoLayout, res |-> "", ptr |-> null_mut,
                 pre |-> r.start] :
                  checks \in BOOLEAN, r \in BinRegions}

\* let mut a = Allocator::new(start, end)
BinNew ==
    /\ mem.stage = "region"
    /\ mem' = [mem EXCEPT !.stage = "live", !.op = "new",
                          !.current = mem.start,
                          !.bins = [b \in 0 .. MAX_BINS - 1 |-> <<>>]]
    /\ UNCHANGED notMem

\* let p = a.alloc(layout); pre is current before the call
BinAlloc(layout) ==
    /\ mem.stage = "live"
    /\ \E r \in {alloc(mem, layout)} :
       mem' = [mem EXCEPT
                 !.stage = IF r.res = "Panic" THEN "panicked" ELSE "live",
                 !.op = "alloc", !.layout = layout, !.res = r.res,
                 !.ptr = r.ptr, !.current = r.current, !.bins = r.bins,
                 !.pre = mem.current]
    /\ UNCHANGED notMem

NextBin ==
    \/ BinNew
    \/ \E layout \in BinLayouts : BinAlloc(layout)

SpecBin == InitBin /\ [][NextBin]_vars

(***************************************************************************)
(* Claims about the bin allocator (specification SpecBin).  Every layout    *)
(* of BinLayouts has a size above 0 and a power of two as align.            *)
(***************************************************************************)
\* C29: alloc returns (a block or null) and does not abort; an address it
\* returns that is not null is a multiple of layout.align and begins
\* layout.size bytes that are the allocation's own: they lie at or after
\* the allocator's current before the call and before its current after.
C29_AllocAlignedBlock ==
    mem.op = "alloc" =>
        /\ mem.res = "Ok"
        /\ mem.ptr # null_mut =>
             /\ MultipleOf(mem.ptr, mem.layout.align)
             /\ ~usize_gt(mem.pre, mem.ptr)
             /\ ~carry_into(mem.ptr, mem.layout.size, USIZE_BITS)
             /\ ~usize_gt(wrapping_add(mem.ptr, mem.layout.size), mem.current)

\* The size class of the layout asked for: the least k with
\* max(size, align) <= 2^(k + 3).
SizeClass ==
    LET m == IF usize_gt(mem.layout.align, mem.layout.size)
             THEN mem.layout.align ELSE mem.layout.size IN
    CHOOSE k \in 0 .. USIZE_BITS - 4 :
        /\ ~usize_gt(m, {k + 3})
        /\ k > 0 => usize_gt(m, {k + 2})

\* The region from current (before the call) to end cannot hold a block of
\* the size class, aligned to layout.align.
CannotHold ==
    LET low == {i \in mem.pre : \A k \in mem.layout.align : i < k}
        high == mem.pre \ low
        aligned == IF low = {} THEN mem.pre
                   ELSE wrapping_add(high, mem.layout.align) IN
    \/ low # {} /\ carry_into(high, mem.layout.align, USIZE_BITS)
    \/ carry_into(aligned, {SizeClass + 3}, USIZE_BITS)
    \/ usize_gt(wrapping_add(aligned, {SizeClass + 3}), mem.end)

\* C30: a block that alloc returns lies inside [start, end); when the size
\* class reaches MAX_BINS or the region cannot hold a block of the size
\* class, alloc returns null and leaves current as it was.
C30_BlockInsideRegion ==
    mem.op = "alloc" =>
        /\ mem.ptr # null_mut =>
             /\ ~usize_gt(mem.start, mem.ptr)
             /\ ~carry_into(mem.ptr, {SizeClass + 3}, USIZE_BITS)
             /\ ~usize_gt(wrapping_add(mem.ptr, {SizeClass + 3}), mem.end)
        /\ (SizeClass >= 32 \/ CannotHold) =>
             /\ mem.res = "Ok"
             /\ mem.ptr = null_mut
             /\ mem.current = mem.pre

(***************************************************************************)
(* Part 5.  The shell (kern/src/shell.rs).  Bytes are their ASCII codes; a  *)
(* str is the sequence of its bytes.  The line buffer is the StackVec of    *)
(* Part 3.                                                                  *)
(***************************************************************************)
StackBufLen == 4        \* bytes in stack_buf (512 in the source)
CmdBufLen == 1          \* strs in cmd_buf (64 in the source)

BEL == 7
BS == 8
DEL == 127
NL == 10
CR == 13

\* The bytes the console delivers: e, x, i, t, space, the control bytes the
\* shell knows and one byte that is not ASCII.
ShellInputs == {101, 120, 105, 116, 32, BS, DEL, NL, CR, 128}

\* s.split(' '): the pieces of s between spaces, cur being the piece begun.
RECURSIVE split(_, _)
split(s, cur) ==
    IF s = <<>> THEN <<cur>>
    ELSE IF Head(s) = 32 THEN <<cur>> \o split(Tail(s), <<>>)
    ELSE split(Tail(s), Append(cur, Head(s)))

\* for arg in ... { args.push(arg).map_err(|_| Error::TooManyArgs)?; }
RECURSIVE push_args(_, _)
push_args(args, rest) ==
    IF rest = <<>> THEN [res |-> "Ok", args |-> args]
    ELSE LET r == push(args, Head(rest)) IN
         IF r.ret = "Err" THEN [res |-> "TooManyArgs", args |-> r.self]
         ELSE push_args(r.self, Tail(rest))

\* Command::parse(s, buf): Ok with the command's args, or the Error.
Command_parse(s, buf) ==
    LET pieces == SelectSeq(split(s, <<>>), LAMBDA a : a # <<>>)
        r == push_args(StackVec_new(buf), pieces) IN
    IF r.res = "TooManyArgs" THEN [res |-> "TooManyArgs", args |-> <<>>]
    ELSE IF is_empty(r.args) THEN [res |-> "Empty", args |-> <<>>]
    ELSE [res |-> "Ok", args |-> as_slice(r.args)]

\* The state of the shell in its loop 'arg, after it handled a byte: the
\* line buffer, what it wrote to the console, and the result of
\* Command::parse if the byte ended a line.
ShellState(stage, stack, out, parsed) ==
    [stage |-> stage, stack |-> stack, out |-> out, parsed |-> parsed,
     prefix |-> sh.prefix, returned |-> FALSE]

NotParsed == [res |-> "", args |-> <<>>]

\* One pass through the loop 'arg with the byte input read from the
\* console: the shell's state afterwards.  After a line that parses the
\* loop is left (break 'arg) and the loop 'cmd starts over, as it does
\* after one that does not (continue 'cmd): the command is not dispatched.
shell_byte(stack, input) ==
    IF ~(input < 128)
    THEN ShellState("arg", stack, <<BEL>>, NotParsed)
    ELSE IF input = BS \/ input = DEL
    THEN LET r == pop(stack) IN
         IF r.ret # None
         THEN ShellState("arg", r.self, <<BS, 32, BS>>, NotParsed)
         ELSE ShellState("arg", r.self, <<BEL>>, NotParsed)
    ELSE IF input = NL \/ input = CR
    THEN LET cmd == Command_parse(as_slice(stack),
                                  [i \in 1 .. CmdBufLen |-> <<>>]) IN
         IF cmd.res = "TooManyArgs"
         THEN ShellState("cmd", stack, <<NL, CR, BEL>>, cmd)
         ELSE ShellState("cmd", stack, <<NL, CR>>, cmd)
    ELSE LET r == push(stack, input) IN
         IF r.ret = "Ok"
         THEN ShellState("arg", r.self, <<input>>, NotParsed)
         ELSE ShellState("arg", r.self, <<BEL>>, NotParsed)

\* shell("> ") has been called.
InitShell ==
    /\ CacheOff
    /\ parse = NoParse
    /\ sv = NoStackVec
    /\ mem = NoMem
    /\ boot = NoBoot
    /\ sh = [stage |-> "cmd", stack |-> StackVec_new(<<>>), out |-> <<>>,
             parsed |-> NotParsed, prefix |-> <<62, 32>>, returned |-> FALSE]

\* 'cmd: loop { let mut stack_buf = [0u8; 512]; ...; kprint!("{}", prefix);
ShellPrompt ==
    /\ sh.stage = "cmd"
    /\ sh' = [sh EXCEPT
                !.stage = "arg",
                !.stack = StackVec_new([i \in 1 .. StackBufLen |-> 0]),
                !.out = sh.prefix]
    /\ UNCHANGED <<cacheVars, parse, sv, mem, boot>>

\* 'arg: loop { let input = console.read_byte(); ... }
ShellByte(input) ==
    /\ sh.stage = "arg"
    /\ sh' = shell_byte(sh.stack, input)
    /\ UNCHANGED <<cacheVars, parse, sv, mem, boot>>

NextShell ==
    \/ ShellPrompt
    \/ \E input \in ShellInputs : ShellByte(input)

SpecShell == InitShell /\ [][NextShell]_vars

\* The shell runs on: it goes round its loops as long as the console
\* delivers bytes.
SpecShellLive == SpecShell /\ WF_vars(NextShell)

(***************************************************************************)
(* Claims about the shell (specification SpecShellLive).                    *)
(***************************************************************************)
\* The line that was just ended is a command whose path is "exit".
ExitEntered ==
    /\ sh.parsed.res = "Ok"
    /\ sh.parsed.args[1] = <<101, 120, 105, 116>>

\* C31: once the command exit has been entered, shell returns to its
\* caller.
C31_ExitReturns == ExitEntered ~> sh.returned

(***************************************************************************)
(* More properties of the CachedPartition (Part 1, under Spec).            *)
(***************************************************************************)

\* The physical sectors of logical sector s, in ascending order.
PhysicalSectorsOf(s) ==
    [i \in 1 .. (partition.sector_size \div device.sector_size) |->
       partition.start
         + s * (partition.sector_size \div device.sector_size) + (i - 1)]

\* C32: the load of logical sector s reads the physical sectors
\* start + s*factor, ..., start + s*factor + factor - 1, each once, in
\* ascending order, and no other sector: a load that finishes has read all of
\* them, and a load the device stops has read the first of them up to the
\* read that failed.  A call that does not load reads nothing.
C32_LoadReadsItsSectors ==
    /\ (Loading /\ last.sector < partition.num_sectors) =>
           LET all == PhysicalSectorsOf(last.sector)
           IN  /\ Len(last.reads) <= Len(all)
               /\ last.reads = SubSeq(all, 1, Len(last.reads))
               /\ last.res = "Ok" => last.reads = all
    /\ (last.op \in CacheOps /\ ~Loading) => last.reads = <<>>

\* Logical sector 1 of a partition that starts at 1, with two physical
\* sectors per logical sector, was loaded by the reads of sectors 3 and 4.
C32_Witness ==
    /\ Loading
    /\ last.res = "Ok"
    /\ last.sector = 1
    /\ partition.start = 1
    /\ last.reads = <<3, 4>>

\* C33: a call that loads a sector reads the device into storage that is
\* live and owned by nobody else: when the load starts, the storage behind
\* cache_line_buffer is still the CachedPartition's own allocation.
C33_ExclusiveScratch ==
    [][(/\ last'.op \in CacheOps
        /\ last'.sector \notin DOMAIN cache
        /\ last'.sector < partition.num_sectors)
       => cache_line_buffer = "owned"]_vars

\* C36: get, get_mut, read_sector and write_sector on a sector that is not
\* below partition.num_sectors fail with InvalidInput, having asked the
\* device for nothing and changed nothing; so the sectors that have an entry
\* are all below partition.num_sectors.
C36_OutOfRangeRefused ==
    /\ (last.op \in CacheOps /\ last.sector >= partition.num_sectors) =>
           /\ last.res = "Err"
           /\ last.err = "InvalidInput"
           /\ last.reads = <<>>
           /\ cache = last.pre
    /\ \A s \in DOMAIN cache : s < partition.num_sectors

\* write_sector on sector num_sectors was refused while the sectors below
\* it were cached.
C36_Witness ==
    /\ last.op = "write_sector"
    /\ last.sector = partition.num_sectors
    /\ last.err = "InvalidInput"
    /\ partition.num_sectors = 2
    /\ DOMAIN cache = {0, 1}

\* C37: a call of get, get_mut, read_sector or write_sector on sector s,
\* whether it succeeds, fails or ends the process, leaves every other sector
\* as it was: no entry made, none removed, the same bytes, the same dirty
\* flag.
C37_OtherSectorsUntouched ==
    last.op \in CacheOps =>
        \A t \in SectorIds \ {last.sector} :
            /\ (t \in DOMAIN cache) = (t \in DOMAIN last.pre)
            /\ t \in DOMAIN cache => cache[t] = last.pre[t]

\* Sector 1 was loaded by get_mut while sector 0 was cached and dirty.
C37_Witness ==
    /\ last.op = "get_mut"
    /\ last.sector = 1
    /\ last.res = "Ok"
    /\ 1 \notin DOMAIN last.pre
    /\ 0 \in DOMAIN last.pre
    /\ last.pre[0].dirty
    /\ cache[0] = last.pre[0]

(***************************************************************************)
(* <CachedPartition as BlockDevice>::sector_size.                          *)
(*                                                                         *)
(* Its body is `self.sector_size()`.  CachedPartition has no inherent      *)
(* method of that name (sector_size is a field of Partition), so the call  *)
(* resolves to the trait method itself: every frame calls the next one and *)
(* no frame returns.  The stack holds MaxStackDepth frames here; the frame *)
(* after the last one overflows it and the process dies.  (A build that    *)
(* turns the tail call into a jump stays in the function for ever, which   *)
(* is the behaviour that stutters at a frame.)                             *)
(*                                                                         *)
(* While the call runs, last.res is "Running" and last.ret counts its      *)
(* frames.                                                                 *)
(***************************************************************************)
MaxStackDepth == 3

\* The caller's query.
SectorSizeCall ==
    /\ pc = "ready"
    /\ pc' = "sector_size"
    /\ last' = [NoCall EXCEPT !.op = "sector_size", !.res = "Running",
                              !.ret = 1, !.pre = cache]
    /\ UNCHANGED <<device, disk, partition, cache, cache_line_buffer, loads,
                   notCache>>

\* One frame of sector_size: the call of self.sector_size().
SectorSizeFrame ==
    /\ pc = "sector_size"
    /\ IF last.ret < MaxStackDepth
       THEN /\ pc' = "sector_size"
            /\ last' = [last EXCEPT !.ret = @ + 1]
       ELSE /\ pc' = "aborted"
            /\ last' = [last EXCEPT !.res = "Abort", !.ret = 0]
    /\ UNCHANGED <<device, disk, partition, cache, cache_line_buffer, loads,
                   notCache>>

\* The CachedPartition as a BlockDevice: the calls of Part 1 and the query.
NextBlockDevice == Next \/ SectorSizeCall \/ SectorSizeFrame

\* A frame that is entered makes its call.
SpecBlockDevice ==
    Init /\ [][NextBlockDevice]_vars /\ WF_vars(SectorSizeFrame)

\* C34: a call of sector_size() on a CachedPartition returns, and returns
\* partition.sector_size.
C34_SectorSizeReturns ==
    (last.op = "sector_size")
        ~> (/\ last.op = "sector_size"
            /\ last.res = "Ok"
            /\ last.ret = partition.sector_size)

(***************************************************************************)
(* CachedPartition::virtual_to_physical in u64.                            *)
(*                                                                         *)
(* Part 1 counts sectors in small numbers.  Here start, num_sectors, the   *)
(* sector sizes and virt are u64 values, kept as the sets of their one     *)
(* bits like the usize values of Part 4 (64 bits both), and `/`, `*` and   *)
(* `+` are the operators of u64: `*` and `+` panic on overflow when the    *)
(* build checks overflow and wrap when it does not.  mem.checks is the     *)
(* build's choice.                                                         *)
(***************************************************************************)
\* The element of a set of one element: `let v = e` is written
\* the({.. v .. : v \in {e}}), which computes e once.
the(S) == CHOOSE v \in S : TRUE

\* x << i, and whether it shifts one bits out.
shl(x, i) == {j + i : j \in x} \cap BitPos
shl_overflows(x, i) == \E j \in x : j + i >= USIZE_BITS

\* x - y modulo 2^64, bit by bit: a borrow comes into position i from the
\* nearest lower position where the bits differ, if it is y that has the 1.
borrow_into(x, y, i) ==
    \E j \in y \ x : j < i /\ \A k \in (j + 1) .. (i - 1) : k \notin x \ y

minus(x, y) ==
    {i \in BitPos : ((i \in x) # (i \in y)) # borrow_into(x, y, i)}

\* x / y and x % y for y > 0, by long division: i runs from bit 63 down,
\* rem being what is left of x.
RECURSIVE div_loop(_, _, _, _)
div_loop(rem, y, i, q) ==
    IF i < 0 THEN [q |-> q, r |-> rem]
    ELSE IF ~usize_gt(shl(y, i), rem) /\ ~shl_overflows(y, i)
         THEN div_loop(minus(rem, shl(y, i)), y, i - 1, q \cup {i})
         ELSE div_loop(rem, y, i - 1, q)

\* x / y: a division by zero panics in every build.
u64_div(x, y) ==
    IF y = {} THEN Panics ELSE Returns(div_loop(x, y, USIZE_BITS - 1, {}).q)

\* x + y modulo 2^64, bit by bit: a carry comes into position i from the
\* nearest lower position where the bits are equal, if they are both 1.
carry_in(x, y, i) ==
    \E j \in x \cap y : j < i /\ \A k \in (j + 1) .. (i - 1) : k \in x \cup y

plus(x, y) ==
    {i \in BitPos : ((i \in x) # (i \in y)) # carry_in(x, y, i)}

\* x * y modulo 2^64 by shifts and additions, one for each one bit of y
\* from the lowest up, and whether the product needs more than 64 bits.
RECURSIVE mul_loop(_, _, _, _)
mul_loop(x, y, acc, ovf) ==
    IF y = {} THEN [val |-> acc, ovf |-> ovf]
    ELSE the({mul_loop(x, y \ {i}, plus(acc, shl(x, i)), o)
              : i \in {j \in y : \A k \in y : j <= k},
                o \in {\/ ovf
                       \/ \E j \in y : shl_overflows(x, j)
                       \/ carry_in(acc, shl(x, CHOOSE j \in y : \A k \in y : j <= k),
                                   USIZE_BITS)}})

\* x * y
u64_mul(x, y) ==
    the({IF m.ovf /\ OverflowChecks THEN Panics ELSE Returns(m.val)
         : m \in {mul_loop(x, y, {}, FALSE)}})

\* CachedPartition::factor
factor_u64 == u64_div(partition.sector_size, device.sector_size)

\* CachedPartition::virtual_to_physical: res is "None", "Some" or "Panic".
virtual_to_physical_u64(virt) ==
    IF ~usize_gt(partition.num_sectors, virt)
    THEN [res |-> "None", val |-> {}]
    ELSE the({
      IF f.res = "Panic" THEN Panics
      ELSE the({
        IF physical_offset.res = "Panic" THEN Panics
        ELSE the({
          IF physical_sector.res = "Panic" THEN Panics
          ELSE [res |-> "Some", val |-> physical_sector.val]
          : physical_sector \in
                {usize_add(partition.start, physical_offset.val)}})
        : physical_offset \in {u64_mul(virt, f.val)}})
      : f \in {factor_u64}})

\* partition.start: 0, 1, 2^63 and 2^64 - 1.
U64Starts == {{}, usize_1, {USIZE_BITS - 1}, usize_MAX}

\* partition.num_sectors: 0, 2, 2^62 and 2^64 - 1.
U64NumSectors == {{}, {1}, {USIZE_BITS - 2}, usize_MAX}

\* partition.sector_size: 512, 1024, 1536 and 2^63.
U64SectorSizes == {{9}, {10}, {9, 10}, {USIZE_BITS - 1}}

\* device.sector_size(): 1 and 512.
U64DevSectorSizes == {{0}, {9}}

\* The sectors asked for: 0, 1, 3, 2^61 and 2^64 - 1.
U64Virts == {{}, usize_1, {0, 1}, {USIZE_BITS - 3}, usize_MAX}

\* A CachedPartition that new has made, in either build: new's assert!
\* holds of it.
InitTranslate ==
    /\ pc = "ready"
    /\ device \in [sector_size : U64DevSectorSizes]
    /\ partition \in [start : U64Starts, num_sectors : U64NumSectors,
                      sector_size : U64SectorSizes]
    /\ ~usize_gt(device.sector_size, partition.sector_size)
    /\ disk = <<>>
    /\ cache = EmptyCache
    /\ cache_line_buffer = "owned"
    /\ loads = <<>>
    /\ last = [op |-> "new", virt |-> {}, out |-> Panics]
    /\ mem \in [stage : {"build"}, checks : BOOLEAN]
    /\ parse = NoParse
    /\ sv = NoStackVec
    /\ sh = NoShell
    /\ boot = NoBoot

\* self.virtual_to_physical(virt)
Translate(virt) ==
    /\ pc = "ready"
    /\ \E r \in {virtual_to_physical_u64(virt)} :
          /\ last' = [op |-> "virtual_to_physical", virt |-> virt, out |-> r]
          /\ pc' = IF r.res = "Panic" THEN "panicked" ELSE "ready"
    /\ UNCHANGED <<device, disk, partition, cache, cache_line_buffer, loads,
                   notCache>>

NextTranslate == \E virt \in U64Virts : Translate(virt)

SpecTranslate == InitTranslate /\ [][NextTranslate]_vars

\* C35: for virt < num_sectors, a physical sector that virtual_to_physical
\* returns is start + virt * factor in the integers: it is not below start,
\* and its distance from start divided by factor is virt, remainder 0.
C35_NoWrapAround ==
    (/\ last.op = "virtual_to_physical"
     /\ usize_gt(partition.num_sectors, last.virt)
     /\ last.out.res = "Some")
    => /\ ~usize_gt(partition.start, last.out.val)
       /\ \A f \in {factor_u64.val} :
          \A d \in {minus(last.out.val, partition.start)} :
              div_loop(d, f, USIZE_BITS - 1, {}) = [q |-> last.virt, r |-> {}]

(***************************************************************************)
(* Part 6.  The bootloader (boot/src/main.rs): kmain receives a binary     *)
(* over the mini UART by XMODEM and branches to it.                        *)
(*                                                                         *)
(* boot.stage is "reset" before kmain, "receive" at the head of its loop   *)
(* and "jumped" after jump_to(BINARY_START).  boot.results are the results *)
(* of its calls of Xmodem::receive, boot.uart the strings it has written   *)
(* to the UART.                                                            *)
(***************************************************************************)
MaxReceives == 4        \* the calls of Xmodem::receive that are followed

\* What Xmodem::receive returns: Ok(n), or an io::Error of one of these
\* kinds.
ReceiveResults == {"Ok", "TimedOut", "InvalidData", "ConnectionAborted"}

\* <MiniUart as fmt::Write>::write_str(s): it writes every byte and
\* returns Ok(()), so the unwrap() that follows never panics.
write_str(uart, s) == [res |-> "Ok", uart |-> Append(uart, s)]

\* One pass through kmain's loop that branches to the binary after every
\* result but a timeout.
kmain_loop_jumps_on_error(b, result) ==
    IF result = "TimedOut"
    THEN [b EXCEPT !.results = Append(@, result)]
    ELSE [b EXCEPT !.stage = "jumped", !.results = Append(@, result)]

\* One pass through kmain's loop, `result` being what Xmodem::receive
\* returned.
kmain_loop(b, result) ==
    IF result = "Ok"
    THEN [b EXCEPT !.stage = "jumped", !.results = Append(@, result)]
    ELSE IF result = "TimedOut"
    THEN [b EXCEPT !.results = Append(@, result)]
    ELSE LET w == write_str(b.uart, "Error receving over uart crashing...\n")
         IN  [b EXCEPT !.results = Append(@, result), !.uart = w.uart]

InitBoot ==
    /\ CacheOff
    /\ parse = NoParse
    /\ sv = NoStackVec
    /\ mem = NoMem
    /\ sh = NoShell
    /\ boot = [stage |-> "reset", results |-> <<>>, uart |-> <<>>]

\* kmain up to its loop: the UART is set up and cleared.
KmainStart ==
    /\ boot.stage = "reset"
    /\ boot' = [boot EXCEPT !.stage = "receive"]
    /\ UNCHANGED <<cacheVars, parse, sv, mem, sh>>

\* match Xmodem::receive(&mut uart, &mut binary) { .. }
KmainReceive(result) ==
    /\ boot.stage = "receive"
    /\ Len(boot.results) < MaxReceives
    /\ boot' = kmain_loop(boot, result)
    /\ UNCHANGED <<cacheVars, parse, sv, mem, sh>>

NextBoot == KmainStart \/ \E result \in ReceiveResults : KmainReceive(result)

SpecBoot == InitBoot /\ [][NextBoot]_vars

\* The results among rs that are reported over the UART.
Reported(rs) == SelectSeq(rs, LAMBDA r : r \notin {"Ok", "TimedOut"})

\* C39: kmain has branched to BINARY_START exactly when its last call of
\* Xmodem::receive returned Ok, and no earlier call did; after a call that
\* failed it is back at the head of its loop, having written its message to
\* the UART once for every failure that was no timeout, and nothing for a
\* timeout.
C39_JumpOnlyAfterOk ==
    LET n == Len(boot.results) IN
    /\ boot.stage = "jumped" <=> (n > 0 /\ boot.results[n] = "Ok")
    /\ \A i \in 1 .. n - 1 : boot.results[i] # "Ok"
    /\ (n > 0 /\ boot.results[n] # "Ok") => boot.stage = "receive"
    /\ Len(boot.uart) = Len(Reported(boot.results))

\* A timeout, then a transfer that failed otherwise, then a transfer that
\* succeeded: one message on the UART, and the branch.
C39_Witness ==
    /\ boot.stage = "jumped"
    /\ boot.results = <<"TimedOut", "InvalidData", "Ok">>
    /\ Len(boot.uart) = 1

====
